---- MODULE Spec2Model ----
(***************************************************************************)
(* s3insqlite: an S3-compatible object store over SQLite.  One table per   *)
(* bucket, one row per object.  The source tree holds two iterations of    *)
(* the server: the axum handlers under src/src/handlers with the helpers   *)
(* under src/src/utils and src/src/models, and the actix server of         *)
(* src/src/main.rs.  Both are modelled; the variable "server" says which   *)
(* one is running.  Strings are sequences of one-character strings, byte   *)
(* payloads are sequences of small naturals.                               *)
(***************************************************************************)
EXTENDS Integers, Sequences, FiniteSets, TLC

VARIABLES
    server,     \* "handlers" (axum) or "main" (actix, main.rs)
    phase,      \* "startup", "serving" or "failed" (startup panicked)
    config,     \* AppConfig.buckets: the configured bucket names
    buckets,    \* AppState.buckets: the allow-list
    tables,     \* the SQLite database: table identifier -> (key -> row)
    now,        \* the storage engine's clock, seconds
    last,       \* the request handled last and its response
    m_in,       \* identifier mapper under test: a pair of bucket names
    m_out,      \* identifier mapper under test: the pair of results
    held,       \* the pool: task -> number of connections it has checked out
    procs       \* the concurrent tasks: requests in flight, the maintenance

vars == <<server, phase, config, buckets, tables, now, last, m_in, m_out, held, procs>>

----------------------------------------------------------------------------
(* Bounds of the model *)

\* longest bucket name handed to the identifier mapper on its own
MaxNameLen == 2
\* the clock runs from 0 to MaxClock
MaxClock == 1

----------------------------------------------------------------------------
(* Characters and strings *)

Lower == {"a","b","c","d","e","f","g","h","i","j","k","l","m",
          "n","o","p","q","r","s","t","u","v","w","x","y","z"}
Upper == {"A","B","C","D","E","F","G","H","I","J","K","L","M",
          "N","O","P","Q","R","S","T","U","V","W","X","Y","Z"}
Digit == {"0","1","2","3","4","5","6","7","8","9"}

is_ascii_alphanumeric(c) == c \in Lower \cup Upper \cup Digit

\* Option::None; no string is equal to it (a string is a sequence of characters)
None == <<"None">>

\* str::replace(from, to) for one-character patterns
replace(s, from, to) == [i \in 1..Len(s) |-> IF s[i] = from THEN to ELSE s[i]]

BucketPrefix == <<"b","u","c","k","e","t","_">>

\* the name passes the character check of both mappers
name_is_valid(bucket) ==
    /\ Len(bucket) # 0
    /\ \A i \in 1..Len(bucket) :
          is_ascii_alphanumeric(bucket[i]) \/ bucket[i] = "_" \/ bucket[i] = "-"

\* utils/bucket.rs: dashes are rewritten to underscores
sanitize_bucket_name(bucket) ==
    IF ~name_is_valid(bucket) THEN None
    ELSE BucketPrefix \o replace(bucket, "-", "_")

\* main.rs: the name is kept as it is
main_sanitize_bucket_name(bucket) ==
    IF ~name_is_valid(bucket) THEN None
    ELSE BucketPrefix \o bucket

----------------------------------------------------------------------------
(* Inputs of the requests *)

\* the configurations the server is started with: one bucket, two buckets
\* that differ in a dash, two unrelated buckets, a name the mapper rejects
Configs ==
    { {<<"a","-">>},
      {<<"a","-">>, <<"a","_">>},
      {<<"a","-">>, <<"c">>},
      {<<"a","-">>, <<"a","!">>} }

\* the bucket names of the requests
RequestBuckets == {<<"a","-">>, <<"a","_">>, <<"c">>, <<"a","!">>}
Keys == {<<"a">>, <<"a","/","b">>}
Payloads == {<<>>, <<7>>}

\* bucket a- is sent every key and payload, the others one key and one payload
KeysOf(bucket) == IF bucket = <<"a","-">> THEN Keys ELSE {<<"a">>}
PayloadsOf(bucket) == IF bucket = <<"a","-">> THEN Payloads ELSE {<<7>>}

\* what can go wrong in the storage engine while a request is served:
\* pool.get() fails, the statement cannot be prepared, its execution fails,
\* the read of a row fails
Faults == {"none", "pool", "prepare", "execute"}

\* the faults are injected into the requests for bucket a-, key a
FaultsOf(bucket, key) ==
    IF bucket = <<"a","-">> /\ key = <<"a">> THEN Faults ELSE {"none"}
ListFaultsOf(bucket) ==
    IF bucket = <<"a","-">> THEN Faults \cup {"rows"} ELSE {"none"}

----------------------------------------------------------------------------
(* Content hash *)

HexDigits == <<"0","1","2","3","4","5","6","7","8","9","a","b","c","d","e","f">>

RECURSIVE digest(_, _)
\* a digest of the bytes alone (md5::compute stands behind it), one byte wide
digest(data, h) ==
    IF data = <<>> THEN h
    ELSE digest(Tail(data), (h * 31 + Head(data) + 1) % 256)

\* hex::encode of the digest
hex_encode(n) == <<HexDigits[(n \div 16) + 1], HexDigits[(n % 16) + 1]>>

md5_hex(data) == hex_encode(digest(data, 7))

\* format!("\"{}\"", md5_hash)
quoted(h) == <<"\"">> \o h \o <<"\"">>

----------------------------------------------------------------------------
(* The database: tables, rows, statements *)

\* an SQL statement as the code builds it: the text given to format!, the
\* values format! interpolates into it, and the values bound to ?1, ?2, ...
statement(template, args, params) ==
    [template |-> template, args |-> args, params |-> params]

\* a table right after CREATE TABLE IF NOT EXISTS and CREATE TRIGGER IF NOT EXISTS
new_table == [rows |-> [k \in {} |-> 0], trigger |-> TRUE]

has_row(db, tbl, key) == tbl \in DOMAIN db /\ key \in DOMAIN db[tbl].rows

with_rows(db, tbl, rows) == [db EXCEPT ![tbl] = [@ EXCEPT !.rows = rows]]

\* ensure_bucket_table with CREATE TABLE in place of CREATE TABLE IF NOT
\* EXISTS after a DROP: the table is made anew
ensure_bucket_table_recreate(db, bucket) ==
    LET table_name == sanitize_bucket_name(bucket) IN
    IF table_name = None THEN [ok |-> FALSE, db |-> db, sql |-> {}]
    ELSE [ok |-> TRUE,
          db |-> [t \in DOMAIN db \cup {table_name} |->
                     IF t # table_name THEN db[t] ELSE new_table],
          sql |-> {}]

\* utils/bucket.rs ensure_bucket_table: Err for a name the mapper rejects,
\* else the table and its trigger are created when absent
ensure_bucket_table(db, bucket) ==
    LET table_name == sanitize_bucket_name(bucket) IN
    IF table_name = None THEN [ok |-> FALSE, db |-> db, sql |-> {}]
    ELSE [ok |-> TRUE,
          db |-> [t \in DOMAIN db \cup {table_name} |->
                     IF t \in DOMAIN db THEN db[t] ELSE new_table],
          sql |-> {statement("CREATE TABLE IF NOT EXISTS {table_name} (key TEXT NOT NULL PRIMARY KEY, data BLOB NOT NULL, last_modified INTEGER NOT NULL DEFAULT (strftime('%s', 'now')), md5 TEXT(32) NOT NULL)",
                             <<table_name>>, <<>>),
                   statement("CREATE TRIGGER IF NOT EXISTS update_{table_name}_timestamp AFTER UPDATE ON {table_name} BEGIN UPDATE {table_name} SET last_modified = strftime('%s', 'now') WHERE key = NEW.key; END;",
                             <<table_name, table_name, table_name>>, <<>>)}]

\* utils/db.rs create_bucket_indexes: the statement it formats from its argument
create_bucket_indexes(table_name) ==
    statement("CREATE INDEX IF NOT EXISTS idx_{}_key ON {} (key)",
              <<table_name, table_name>>, <<>>)

\* the trigger without its effect
update_timestamp_trigger_skipped(rows, key, t) == rows

\* the trigger without its WHERE clause
update_timestamp_trigger_all_rows(rows, key, t) ==
    [k \in DOMAIN rows |-> [rows[k] EXCEPT !.last_modified = t]]

\* the trigger update_<table>_timestamp: AFTER UPDATE, last_modified = now
update_timestamp_trigger(rows, key, t) ==
    [rows EXCEPT ![key] = [@ EXCEPT !.last_modified = t]]

\* the upsert as INSERT OR IGNORE: an existing row is kept
upsert_row_ignore(db, tbl, key, data, md5, t) ==
    LET rows == db[tbl].rows IN
    IF key \in DOMAIN rows THEN db
    ELSE with_rows(db, tbl,
            [k \in DOMAIN rows \cup {key} |->
                IF k = key
                THEN [data |-> data, last_modified |-> t, md5 |-> md5]
                ELSE rows[k]])

\* the upsert without md5 = excluded.md5
upsert_row_keep_md5(db, tbl, key, data, md5, t) ==
    LET rows == db[tbl].rows IN
    IF key \notin DOMAIN rows
    THEN with_rows(db, tbl,
            [k \in DOMAIN rows \cup {key} |->
                IF k = key
                THEN [data |-> data, last_modified |-> t, md5 |-> md5]
                ELSE rows[k]])
    ELSE with_rows(db, tbl,
            [rows EXCEPT ![key] = [@ EXCEPT !.data = data, !.last_modified = t]])

\* the upsert without data = excluded.data
upsert_row_keep_data(db, tbl, key, data, md5, t) ==
    LET rows == db[tbl].rows IN
    IF key \notin DOMAIN rows
    THEN with_rows(db, tbl,
            [k \in DOMAIN rows \cup {key} |->
                IF k = key
                THEN [data |-> data, last_modified |-> t, md5 |-> md5]
                ELSE rows[k]])
    ELSE with_rows(db, tbl,
            [rows EXCEPT ![key] = [@ EXCEPT !.md5 = md5, !.last_modified = t]])

\* INSERT INTO <table> (key, data, md5) VALUES (?1, ?2, ?3)
\*   ON CONFLICT(key) DO UPDATE SET data = excluded.data, md5 = excluded.md5
upsert_row(db, tbl, key, data, md5, t) ==
    LET rows == db[tbl].rows IN
    IF key \notin DOMAIN rows
    THEN with_rows(db, tbl,
            [k \in DOMAIN rows \cup {key} |->
                IF k = key
                THEN [data |-> data, last_modified |-> t, md5 |-> md5]
                ELSE rows[k]])
    ELSE LET updated == [rows EXCEPT ![key] = [@ EXCEPT !.data = data, !.md5 = md5]]
         IN with_rows(db, tbl,
               IF db[tbl].trigger THEN update_timestamp_trigger(updated, key, t)
               ELSE updated)

\* a statement on the table ends in Err(e): the engine fails to prepare or to
\* execute it, or the table does not exist ("no such table")
statement_fails(db, tbl, fault) ==
    fault \in {"prepare", "execute"} \/ tbl \notin DOMAIN db

\* DELETE FROM <table> WHERE key = ?1
delete_row(db, tbl, key) ==
    LET rows == db[tbl].rows IN
    [affected |-> IF key \in DOMAIN rows THEN 1 ELSE 0,
     db |-> with_rows(db, tbl, [k \in DOMAIN rows \ {key} |-> rows[k]])]

----------------------------------------------------------------------------
(* Responses *)

\* the listing field of a response that carries no ListBucketResult
NoListing ==
    [name |-> None, prefix |-> <<>>, delimiter |-> None, max_keys |-> 0,
     is_truncated |-> FALSE, encoding_type |-> None, continuation_token |-> None,
     next_continuation_token |-> None, start_after |-> None,
     contents |-> <<>>, common_prefixes |-> <<>>]

\* the body of a response that is not a serialized ListBucketResult
NoXml == [elements |-> <<>>, common_prefixes |-> <<>>]


\* what a handler answers, and what it did to the pool and the database on
\* the way: pool_gets counts the calls of pool.get(), stmts the statements
\* handed to the connection
response(status, code, kind, payload, len, etag, lm, gets, stmts) ==
    [status |-> status, code |-> code, body_kind |-> kind, payload |-> payload,
     content_length |-> len, etag |-> etag, last_modified |-> lm,
     pool_gets |-> gets, stmts |-> stmts, listing |-> NoListing,
     xml |-> NoXml, sql |-> {}]

\* the response of a handler that handed the statement to the connection
with_statements(resp, stmts) == [resp EXCEPT !.sql = stmts]
with_sql(resp, stmt) == with_statements(resp, {stmt})

\* utils/bucket.rs xml_error_response: the status and an <Error> body
xml_error_response(status, code, gets, stmts) ==
    response(status, code, "xml", <<>>, -1, None, -1, gets, stmts)

\* validate_bucket without its membership test
validate_bucket_always_ok(bucket, allowed_buckets) ==
    [ok |-> TRUE, resp |-> None]

\* utils/bucket.rs validate_bucket: Ok(bucket), or the 403 response
validate_bucket(bucket, allowed_buckets) ==
    IF bucket \in allowed_buckets
    THEN [ok |-> TRUE, resp |-> None]
    ELSE [ok |-> FALSE, resp |-> xml_error_response(403, "AccessDenied", 0, 0)]

----------------------------------------------------------------------------
(* The object handlers, handlers/object.rs *)

\* PUT /{bucket}/{key}
upload_object(db, allowed, t, bucket, key, body, fault) ==
    LET v == validate_bucket(bucket, allowed) IN
    IF ~v.ok THEN [resp |-> v.resp, db |-> db]
    ELSE IF fault = "pool"
    THEN [resp |-> xml_error_response(500, "InternalError", 1, 0), db |-> db]
    ELSE LET table_name == sanitize_bucket_name(bucket) IN
         IF table_name = None
         THEN [resp |-> xml_error_response(400, "InvalidBucketName", 1, 0), db |-> db]
         ELSE LET md5_hash == md5_hex(body)
                  sql == statement("INSERT INTO {table_name} (key, data, md5) VALUES (?1, ?2, ?3) ON CONFLICT(key) DO UPDATE SET data=excluded.data, md5=excluded.md5",
                                   <<table_name>>, <<key, body, md5_hash>>)
              IN IF statement_fails(db, table_name, fault)
                 THEN [resp |-> with_sql(xml_error_response(500, "InternalError", 1, 1), sql),
                       db |-> db]
                 ELSE [resp |-> with_sql(response(200, "", "empty", <<>>, -1, None, -1, 1, 1), sql),
                       db |-> upsert_row(db, table_name, key, body, md5_hash, t)]

\* download_object with the key formatted into the statement
download_object_interpolated(db, allowed, bucket, key, fault) ==
    LET v == validate_bucket(bucket, allowed) IN
    IF ~v.ok THEN v.resp
    ELSE IF fault = "pool" THEN xml_error_response(500, "InternalError", 1, 0)
    ELSE LET table_name == sanitize_bucket_name(bucket) IN
         IF table_name = None THEN xml_error_response(400, "InvalidBucketName", 1, 0)
         ELSE with_sql(
                IF statement_fails(db, table_name, fault)
                THEN xml_error_response(500, "InternalError", 1, 1)
                ELSE IF ~has_row(db, table_name, key)
                THEN xml_error_response(404, "NoSuchKey", 1, 1)
                ELSE LET data == db[table_name].rows[key].data IN
                     response(200, "", "bytes", data, Len(data), None, -1, 1, 1),
                statement("SELECT data FROM {table_name} WHERE key = '{key}'",
                          <<table_name, key>>, <<>>))

\* GET /{bucket}/{key}
download_object(db, allowed, bucket, key, fault) ==
    LET v == validate_bucket(bucket, allowed) IN
    IF ~v.ok THEN v.resp
    ELSE IF fault = "pool" THEN xml_error_response(500, "InternalError", 1, 0)
    ELSE LET table_name == sanitize_bucket_name(bucket) IN
         IF table_name = None THEN xml_error_response(400, "InvalidBucketName", 1, 0)
         ELSE with_sql(
                IF statement_fails(db, table_name, fault)
                THEN xml_error_response(500, "InternalError", 1, 1)
                ELSE IF ~has_row(db, table_name, key)
                THEN xml_error_response(404, "NoSuchKey", 1, 1)
                ELSE LET data == db[table_name].rows[key].data IN
                     response(200, "", "bytes", data, Len(data), None, -1, 1, 1),
                statement("SELECT data FROM {table_name} WHERE key = ?1",
                          <<table_name>>, <<key>>))

\* DELETE /{bucket}/{key}
delete_object(db, allowed, bucket, key, fault) ==
    LET v == validate_bucket(bucket, allowed) IN
    IF ~v.ok THEN [resp |-> v.resp, db |-> db]
    ELSE IF fault = "pool"
    THEN [resp |-> xml_error_response(500, "InternalError", 1, 0), db |-> db]
    ELSE LET table_name == sanitize_bucket_name(bucket) IN
         IF table_name = None
         THEN [resp |-> xml_error_response(400, "InvalidBucketName", 1, 0), db |-> db]
         ELSE LET sql == statement("DELETE FROM {table_name} WHERE key = ?1",
                                   <<table_name>>, <<key>>)
              IN IF statement_fails(db, table_name, fault)
                 THEN [resp |-> with_sql(xml_error_response(500, "InternalError", 1, 1), sql),
                       db |-> db]
                 ELSE [resp |-> with_sql(response(204, "", "empty", <<>>, -1, None, -1, 1, 1), sql),
                       db |-> delete_row(db, table_name, key).db]

\* head_object with every Err of query_row answered as NoSuchKey
head_object_catch_all(db, allowed, bucket, key, fault) ==
    LET v == validate_bucket(bucket, allowed) IN
    IF ~v.ok THEN v.resp
    ELSE IF fault = "pool" THEN xml_error_response(500, "InternalError", 1, 0)
    ELSE LET table_name == sanitize_bucket_name(bucket) IN
         IF table_name = None THEN xml_error_response(400, "InvalidBucketName", 1, 0)
         ELSE IF statement_fails(db, table_name, fault) \/ ~has_row(db, table_name, key)
         THEN xml_error_response(404, "NoSuchKey", 1, 1)
         ELSE LET row == db[table_name].rows[key] IN
              response(200, "", "empty", <<>>, Len(row.data), quoted(row.md5),
                       row.last_modified, 1, 1)

\* HEAD /{bucket}/{key}
head_object(db, allowed, bucket, key, fault) ==
    LET v == validate_bucket(bucket, allowed) IN
    IF ~v.ok THEN v.resp
    ELSE IF fault = "pool" THEN xml_error_response(500, "InternalError", 1, 0)
    ELSE LET table_name == sanitize_bucket_name(bucket) IN
         IF table_name = None THEN xml_error_response(400, "InvalidBucketName", 1, 0)
         ELSE with_sql(
                IF statement_fails(db, table_name, fault)
                THEN xml_error_response(500, "InternalError", 1, 1)
                ELSE IF ~has_row(db, table_name, key)
                THEN xml_error_response(404, "NoSuchKey", 1, 1)
                ELSE LET row == db[table_name].rows[key] IN
                     response(200, "", "empty", <<>>, Len(row.data), quoted(row.md5),
                              row.last_modified, 1, 1),
                statement("SELECT LENGTH(data), last_modified, md5 FROM {table_name} WHERE key = ?1",
                          <<table_name>>, <<key>>))

----------------------------------------------------------------------------
(* Listing: utils/bucket.rs query_bucket_objects, models/s3.rs *)

LowerSeq == <<"a","b","c","d","e","f","g","h","i","j","k","l","m",
              "n","o","p","q","r","s","t","u","v","w","x","y","z">>
UpperSeq == <<"A","B","C","D","E","F","G","H","I","J","K","L","M",
              "N","O","P","Q","R","S","T","U","V","W","X","Y","Z">>

\* LIKE compares ASCII letters without regard to case
like_fold(c) ==
    IF c \in Upper THEN LowerSeq[CHOOSE i \in 1..26 : UpperSeq[i] = c] ELSE c

RECURSIVE like(_, _)
\* SQLite's  s LIKE pattern : % is any run of characters, _ any one character
like(s, pattern) ==
    IF pattern = <<>> THEN s = <<>>
    ELSE IF Head(pattern) = "%"
    THEN \E i \in 0..Len(s) : like(SubSeq(s, i + 1, Len(s)), Tail(pattern))
    ELSE /\ s # <<>>
         /\ Head(pattern) = "_" \/ like_fold(Head(pattern)) = like_fold(Head(s))
         /\ like(Tail(s), Tail(pattern))

\* str::starts_with
starts_with(s, prefix) ==
    Len(prefix) <= Len(s) /\ SubSeq(s, 1, Len(prefix)) = prefix

\* str::rfind(char): the last position of c in s, 0 when there is none
rfind(s, c) ==
    IF \E i \in 1..Len(s) : s[i] = c
    THEN CHOOSE i \in 1..Len(s) : s[i] = c /\ \A j \in (i + 1)..Len(s) : s[j] # c
    ELSE 0

\* str::find(char): the first position of c in s, 0 when there is none
find(s, c) ==
    IF \E i \in 1..Len(s) : s[i] = c
    THEN CHOOSE i \in 1..Len(s) : s[i] = c /\ \A j \in 1..(i - 1) : s[j] # c
    ELSE 0

\* the orders in which the engine may hand out the rows of a set of keys
orders(keys) ==
    {o \in [1..Cardinality(keys) -> keys] :
        \A i, j \in 1..Cardinality(keys) : i # j => o[i] # o[j]}

select_seq(seq, keep) ==
    LET F[i \in 0..Len(seq)] ==
            IF i = 0 THEN <<>>
            ELSE IF seq[i] \in keep THEN Append(F[i - 1], seq[i]) ELSE F[i - 1]
    IN F[Len(seq)]

\* SELECT key, length(data), last_modified, md5 FROM <table> WHERE key LIKE ?1
\* with ?1 = prefix%.  order: the keys of the table in the order the engine
\* returns them; dropped: the rows whose read fails and that the loop skips
query_bucket_objects(db, bucket, prefix, fault, order, dropped) ==
    LET table_name == sanitize_bucket_name(bucket) IN
    IF table_name = None
    THEN [ok |-> FALSE, resp |-> xml_error_response(400, "InvalidBucketName", 1, 0),
          rows |-> <<>>, sql |-> {}]
    ELSE LET sql == {statement("SELECT key, length(data), last_modified, md5 FROM {table_name} WHERE key LIKE ?1",
                               <<table_name>>, <<prefix \o <<"%">>>>)} IN
    IF statement_fails(db, table_name, fault)
    THEN [ok |-> FALSE, resp |-> xml_error_response(500, "InternalError", 1, 1),
          rows |-> <<>>, sql |-> sql]
    ELSE LET rows == db[table_name].rows
             hit == {k \in DOMAIN rows : like(k, prefix \o <<"%">>)} \ dropped
             keys == select_seq(order, hit)
         IN [ok |-> TRUE, resp |-> None, sql |-> sql,
             rows |-> [i \in 1..Len(keys) |->
                          [key |-> keys[i], size |-> Len(rows[keys[i]].data),
                           last_modified |-> rows[keys[i]].last_modified,
                           md5 |-> rows[keys[i]].md5]]]

I32Max == 2147483647

NoEtag == [i \in 1..32 |-> "0"]

\* ListBucketResult::add_content
add_content(row) ==
    [key |-> row.key, size |-> row.size, last_modified |-> row.last_modified,
     etag |-> IF row.md5 = None THEN quoted(NoEtag) ELSE quoted(row.md5),
     storage_class |-> "STANDARD"]

\* process_keys that trusts the query: no starts_with, no strip_prefix test
process_keys_unfiltered(prefix, delimiter, rows) ==
    LET suffix(row) == SubSeq(row.key, Len(prefix) + 1, Len(row.key))
        in_contents(row) == delimiter = None \/ find(suffix(row), delimiter[1]) = 0
        C[i \in 0..Len(rows)] ==
            IF i = 0 THEN <<>>
            ELSE IF in_contents(rows[i]) THEN Append(C[i - 1], add_content(rows[i]))
            ELSE C[i - 1]
        prefixes == {SubSeq(rows[i].key, 1, Len(prefix) + find(suffix(rows[i]), delimiter[1])) :
                        i \in {j \in 1..Len(rows) : ~in_contents(rows[j])}}
    IN [contents |-> C[Len(rows)], common_prefixes |-> [p \in prefixes |-> 1]]

\* process_keys that pushes a common prefix for each key, without the HashSet
process_keys_pushing_each(prefix, delimiter, rows) ==
    LET suffix(row) == SubSeq(row.key, Len(prefix) + 1, Len(row.key))
        in_contents(row) ==
            /\ starts_with(row.key, prefix)
            /\ delimiter = None \/ find(suffix(row), delimiter[1]) = 0
        C[i \in 0..Len(rows)] ==
            IF i = 0 THEN <<>>
            ELSE IF in_contents(rows[i]) THEN Append(C[i - 1], add_content(rows[i]))
            ELSE C[i - 1]
        grouped == {i \in 1..Len(rows) :
                       starts_with(rows[i].key, prefix) /\ ~in_contents(rows[i])}
        group(i) == prefix \o SubSeq(suffix(rows[i]), 1, find(suffix(rows[i]), delimiter[1]))
    IN [contents |-> C[Len(rows)],
        common_prefixes |->
            [p \in {group(i) : i \in grouped} |->
                Cardinality({i \in grouped : group(i) = p})]]

\* ListBucketResult::process_keys: the contents, in the order of the rows,
\* and the Vec of common prefixes.  The Vec is filled in the iteration order
\* of a HashSet, which is any order: it is kept as a bag, each string with
\* the number of times it was pushed
process_keys(prefix, delimiter, rows) ==
    LET in_contents(row) ==
            /\ starts_with(row.key, prefix)
            /\ \/ delimiter = None
               \/ find(SubSeq(row.key, Len(prefix) + 1, Len(row.key)), delimiter[1]) = 0
        C[i \in 0..Len(rows)] ==
            IF i = 0 THEN <<>>
            ELSE IF in_contents(rows[i]) THEN Append(C[i - 1], add_content(rows[i]))
            ELSE C[i - 1]
        grouped == {i \in 1..Len(rows) :
                       starts_with(rows[i].key, prefix) /\ ~in_contents(rows[i])}
        prefixes == {LET suffix == SubSeq(rows[i].key, Len(prefix) + 1, Len(rows[i].key))
                     IN prefix \o SubSeq(suffix, 1, find(suffix, delimiter[1])) : i \in grouped}
    IN [contents |-> C[Len(rows)],
        common_prefixes |-> [p \in prefixes |-> 1]]

\* str::parse::<i32>(): Ok(value) for an optional sign and decimal digits in range
parse_i32(s) ==
    LET signed == s # <<>> /\ Head(s) \in {"+", "-"}
        digits == IF signed THEN Tail(s) ELSE s
        D[i \in 0..Len(digits)] ==
            IF i = 0 THEN 0
            ELSE D[i - 1] * 10 + ((CHOOSE d \in 0..9 : HexDigits[d + 1] = digits[i]))
    IN IF digits = <<>> \/ Len(digits) > 10 \/ \E i \in 1..Len(digits) : digits[i] \notin Digit
       THEN [ok |-> FALSE, value |-> 0]
       ELSE LET v == IF signed /\ Head(s) = "-" THEN 0 - D[Len(digits)] ELSE D[Len(digits)]
            IN IF v > I32Max \/ v < (0 - I32Max) - 1 THEN [ok |-> FALSE, value |-> 0]
               ELSE [ok |-> TRUE, value |-> v]

\* the query string of GET /{bucket}: each parameter a string, or None when absent
Query(prefix, delimiter, max_keys, encoding_type, start_after, token, list_type, versioning) ==
    [prefix |-> prefix, delimiter |-> delimiter, max_keys |-> max_keys,
     encoding_type |-> encoding_type, start_after |-> start_after,
     continuation_token |-> token, list_type |-> list_type, versioning |-> versioning]

NoQuery == Query(None, None, None, None, None, None, None, None)

Queries ==
    { NoQuery,
      Query(<<"a">>, <<"/">>, None, None, None, None, None, None),
      Query(<<"a","/">>, None, <<"1">>, <<"u","r","l">>, <<"a">>, <<"t">>, <<"2">>, None),
      Query(None, None, None, None, None, None, None, <<>>) }

\* params.get(name).cloned().unwrap_or_default()
unwrap_or_default(p) == IF p = None THEN <<>> ELSE p

\* the first character of the delimiter parameter, None when absent or empty
delimiter_of(p) == IF p = None \/ p = <<>> THEN None ELSE <<Head(p)>>

max_keys_of(p) ==
    IF p = None THEN I32Max
    ELSE IF parse_i32(p).ok THEN parse_i32(p).value ELSE I32Max

\* a result whose contents are capped at max_keys
list_bucket_result_capped(bucket, prefix, delimiter, max_keys, encoding, token, start_after, rows) ==
    LET p == process_keys(prefix, delimiter, rows)
        n == IF max_keys < 0 THEN 0
             ELSE IF max_keys < Len(p.contents) THEN max_keys ELSE Len(p.contents)
    IN
    [name |-> bucket, prefix |-> prefix, delimiter |-> delimiter,
     max_keys |-> max_keys, is_truncated |-> FALSE,
     encoding_type |-> encoding, continuation_token |-> token,
     next_continuation_token |-> None, start_after |-> start_after,
     contents |-> SubSeq(p.contents, 1, n), common_prefixes |-> p.common_prefixes]

\* ListBucketResult::new, the setters the handler calls, process_keys
list_bucket_result(bucket, prefix, delimiter, max_keys, encoding, token, start_after, rows) ==
    LET p == process_keys(prefix, delimiter, rows) IN
    [name |-> bucket, prefix |-> prefix, delimiter |-> delimiter,
     max_keys |-> max_keys, is_truncated |-> FALSE,
     encoding_type |-> encoding, continuation_token |-> token,
     next_continuation_token |-> None, start_after |-> start_after,
     contents |-> p.contents, common_prefixes |-> p.common_prefixes]

\* an element of the document that holds text: its tag and the text between
\* the tags, character by character as it is written to the body
element(tag, text) == [tag |-> tag, text |-> text]

\* an element that is written only for Some(value)
optional(tag, value) == IF value = None THEN <<>> ELSE <<element(tag, value)>>

RECURSIVE to_string(_)
\* Display of an integer: its decimal digits
to_string(n) ==
    IF n < 0 THEN <<"-">> \o to_string(0 - n)
    ELSE IF n < 10 THEN <<HexDigits[n + 1]>>
    ELSE Append(to_string(n \div 10), HexDigits[(n % 10) + 1])

\* Display of a bool
bool_to_string(b) ==
    IF b THEN <<"t","r","u","e">> ELSE <<"f","a","l","s","e">>

StorageClassText == <<"S","T","A","N","D","A","R","D">>

RECURSIVE flatten(_)
flatten(seqs) == IF seqs = <<>> THEN <<>> ELSE Head(seqs) \o flatten(Tail(seqs))

\* format!("{}", value): the value as it is
display(value) == value

\* the <Contents> elements of to_xml; LastModified carries the instant,
\* written here as its seconds
contents_to_xml(contents) ==
    flatten([i \in 1..Len(contents) |->
        << element("Key", display(contents[i].key)),
           element("LastModified", to_string(contents[i].last_modified)),
           element("ETag", contents[i].etag),
           element("Size", to_string(contents[i].size)),
           element("StorageClass", StorageClassText) >>])

\* ListBucketResult::to_xml: every field is written with format!("<Tag>{}</Tag>")
to_xml(r) ==
    [elements |->
        << element("Name", display(r.name)), element("Prefix", display(r.prefix)) >>
        \o optional("Delimiter", r.delimiter)
        \o optional("EncodingType", r.encoding_type)
        \o optional("ContinuationToken", r.continuation_token)
        \o << element("KeyCount", to_string(Len(r.contents))),
              element("MaxKeys", to_string(r.max_keys)),
              element("IsTruncated", bool_to_string(r.is_truncated)) >>
        \o optional("NextContinuationToken", r.next_continuation_token)
        \o optional("StartAfter", r.start_after)
        \o contents_to_xml(r.contents),
     common_prefixes |-> r.common_prefixes]

RECURSIVE xml_escape(_)
\* the reserved characters of XML replaced by their entities
xml_escape(text) ==
    IF text = <<>> THEN <<>>
    ELSE (CASE Head(text) = "<" -> <<"&","l","t",";">>
            [] Head(text) = ">" -> <<"&","g","t",";">>
            [] Head(text) = "&" -> <<"&","a","m","p",";">>
            [] Head(text) = "\"" -> <<"&","q","u","o","t",";">>
            [] Head(text) = "'" -> <<"&","a","p","o","s",";">>
            [] OTHER -> <<Head(text)>>) \o xml_escape(Tail(text))

escaped_optional(tag, value) ==
    IF value = None THEN <<>> ELSE <<element(tag, xml_escape(value))>>

\* ListBucketResult::to_xml_v2, which list_objects_v2 calls and models/s3.rs
\* does not define: the v2 shape of the result, its text escaped
to_xml_v2(r) ==
    [elements |->
        << element("Name", xml_escape(r.name)), element("Prefix", xml_escape(r.prefix)) >>
        \o escaped_optional("Delimiter", r.delimiter)
        \o escaped_optional("EncodingType", r.encoding_type)
        \o << element("KeyCount", to_string(Len(r.contents))),
              element("MaxKeys", to_string(r.max_keys)),
              element("IsTruncated", bool_to_string(r.is_truncated)) >>
        \o escaped_optional("ContinuationToken", r.continuation_token)
        \o escaped_optional("NextContinuationToken", r.next_continuation_token)
        \o escaped_optional("StartAfter", r.start_after)
        \o contents_to_xml([i \in 1..Len(r.contents) |->
                               [r.contents[i] EXCEPT !.key = xml_escape(@)]]),
     common_prefixes |->
        [e \in {xml_escape(p) : p \in DOMAIN r.common_prefixes} |->
            r.common_prefixes[CHOOSE p \in DOMAIN r.common_prefixes : xml_escape(p) = e]]]

\* 200 with the serialized result as the body
listing_response(result, body) ==
    [response(200, "", "xml", <<>>, -1, None, -1, 1, 1)
        EXCEPT !.listing = result, !.xml = body]

\* a v1 listing that echoes the v2 request fields
list_objects_echoing(db, allowed, bucket, params, fault, order, dropped) ==
    LET v == validate_bucket(bucket, allowed) IN
    IF ~v.ok THEN v.resp
    ELSE LET prefix == unwrap_or_default(params.prefix)
             delimiter == delimiter_of(params.delimiter)
             max_keys == max_keys_of(params.max_keys)
         IN IF fault = "pool" THEN xml_error_response(500, "InternalError", 1, 0)
            ELSE LET q == query_bucket_objects(db, bucket, prefix, fault, order, dropped)
                     result == list_bucket_result(bucket, prefix, delimiter, max_keys,
                                                  params.encoding_type,
                                                  params.continuation_token,
                                                  params.start_after, q.rows)
                 IN with_statements(IF ~q.ok THEN q.resp
                                    ELSE listing_response(result, to_xml(result)),
                                    q.sql)

\* handlers/bucket.rs list_objects (v1)
list_objects(db, allowed, bucket, params, fault, order, dropped) ==
    LET v == validate_bucket(bucket, allowed) IN
    IF ~v.ok THEN v.resp
    ELSE LET prefix == unwrap_or_default(params.prefix)
             delimiter == delimiter_of(params.delimiter)
             max_keys == max_keys_of(params.max_keys)
         IN IF fault = "pool" THEN xml_error_response(500, "InternalError", 1, 0)
            ELSE LET q == query_bucket_objects(db, bucket, prefix, fault, order, dropped)
                     result == list_bucket_result(bucket, prefix, delimiter, max_keys,
                                                  None, None, None, q.rows)
                 IN with_statements(IF ~q.ok THEN q.resp
                                    ELSE listing_response(result, to_xml(result)),
                                    q.sql)

\* a v2 listing that ignores the delimiter
list_objects_v2_ungrouped(db, allowed, bucket, params, fault, order, dropped) ==
    LET v == validate_bucket(bucket, allowed) IN
    IF ~v.ok THEN v.resp
    ELSE LET prefix == unwrap_or_default(params.prefix)
             max_keys == max_keys_of(params.max_keys)
         IN IF fault = "pool" THEN xml_error_response(500, "InternalError", 1, 0)
            ELSE LET q == query_bucket_objects(db, bucket, prefix, fault, order, dropped)
                     result == list_bucket_result(bucket, prefix, None, max_keys,
                                                  params.encoding_type,
                                                  params.continuation_token,
                                                  params.start_after, q.rows)
                 IN with_statements(IF ~q.ok THEN q.resp
                                    ELSE listing_response(result, to_xml_v2(result)),
                                    q.sql)

\* handlers/bucket.rs list_objects_v2
list_objects_v2(db, allowed, bucket, params, fault, order, dropped) ==
    LET v == validate_bucket(bucket, allowed) IN
    IF ~v.ok THEN v.resp
    ELSE LET prefix == unwrap_or_default(params.prefix)
             delimiter == delimiter_of(params.delimiter)
             max_keys == max_keys_of(params.max_keys)
         IN IF fault = "pool" THEN xml_error_response(500, "InternalError", 1, 0)
            ELSE LET q == query_bucket_objects(db, bucket, prefix, fault, order, dropped)
                     result == list_bucket_result(bucket, prefix, delimiter, max_keys,
                                                  params.encoding_type,
                                                  params.continuation_token,
                                                  params.start_after, q.rows)
                 IN with_statements(IF ~q.ok THEN q.resp
                                    ELSE listing_response(result, to_xml_v2(result)),
                                    q.sql)

\* handlers/bucket.rs get_bucket_versioning: the fixed "Suspended" document
get_bucket_versioning(allowed, bucket) ==
    LET v == validate_bucket(bucket, allowed) IN
    IF ~v.ok THEN v.resp
    ELSE response(200, "", "xml", <<>>, -1, None, -1, 0, 0)

\* handlers/bucket.rs get_bucket_dispatch: which handler serves GET /{bucket}
get_bucket_dispatch(params) ==
    IF params.versioning # None THEN "get_bucket_versioning"
    ELSE IF params.list_type = <<"2">> THEN "list_objects_v2"
    ELSE "list_objects"

----------------------------------------------------------------------------
(* The server of main.rs *)

\* a panic of the handler: no response is written
panic_response(gets, stmts) ==
    response(0, "panic", "none", <<>>, -1, None, -1, gets, stmts)

\* main.rs upload_object: pool.get().unwrap(), prepare(..).expect(..);
\* the table of main.rs has no md5 column
main_upload_object(db, allowed, t, bucket, key, body, fault) ==
    LET v == validate_bucket(bucket, allowed) IN
    IF ~v.ok THEN [resp |-> v.resp, db |-> db]
    ELSE IF fault = "pool" THEN [resp |-> panic_response(1, 0), db |-> db]
    ELSE LET table_name == main_sanitize_bucket_name(bucket) IN
         IF table_name = None
         THEN [resp |-> xml_error_response(400, "InvalidBucketName", 1, 0), db |-> db]
         ELSE IF fault = "prepare" \/ table_name \notin DOMAIN db
         THEN [resp |-> panic_response(1, 1), db |-> db]
         ELSE IF fault = "execute"
         THEN [resp |-> xml_error_response(500, "InternalError", 1, 1), db |-> db]
         ELSE [resp |-> response(200, "", "empty", <<>>, -1, None, -1, 1, 1),
               db |-> upsert_row(db, table_name, key, body, None, t)]

\* main.rs delete_object: 404 NoSuchKey when the statement affected no row
main_delete_object(db, allowed, bucket, key, fault) ==
    LET v == validate_bucket(bucket, allowed) IN
    IF ~v.ok THEN [resp |-> v.resp, db |-> db]
    ELSE IF fault = "pool" THEN [resp |-> panic_response(1, 0), db |-> db]
    ELSE LET table_name == main_sanitize_bucket_name(bucket) IN
         IF table_name = None
         THEN [resp |-> xml_error_response(400, "InvalidBucketName", 1, 0), db |-> db]
         ELSE IF statement_fails(db, table_name, fault)
         THEN [resp |-> xml_error_response(500, "InternalError", 1, 1), db |-> db]
         ELSE LET d == delete_row(db, table_name, key) IN
              IF d.affected = 0
              THEN [resp |-> xml_error_response(404, "NoSuchKey", 1, 1), db |-> d.db]
              ELSE [resp |-> response(204, "", "empty", <<>>, -1, None, -1, 1, 1),
                    db |-> d.db]

\* main.rs get_bucket_versioning
main_get_bucket_versioning(allowed, bucket) ==
    LET v == validate_bucket(bucket, allowed) IN
    IF ~v.ok THEN v.resp
    ELSE response(200, "", "xml", <<>>, -1, None, -1, 0, 0)

\* the ASCII codes of the characters that keys are made of in this model
Ascii ==
    [c \in {"%", "/", "<", "A", "_", "a", "b", "c", "d", "x", "y"} |->
        CASE c = "%" -> 37 [] c = "/" -> 47 [] c = "<" -> 60 [] c = "A" -> 65
          [] c = "_" -> 95 [] c = "a" -> 97 [] c = "b" -> 98 [] c = "c" -> 99
          [] c = "d" -> 100 [] c = "x" -> 120 [] c = "y" -> 121]

RECURSIVE lex_less(_, _)
\* s < t for strings, byte by byte (SQLite's BINARY collation, Rust's Ord for str)
lex_less(s, t) ==
    IF t = <<>> THEN FALSE
    ELSE IF s = <<>> THEN TRUE
    ELSE IF Head(s) = Head(t) THEN lex_less(Tail(s), Tail(t))
    ELSE Ascii[Head(s)] < Ascii[Head(t)]

is_sorted(keys) == \A i \in 1..(Len(keys) - 1) : lex_less(keys[i], keys[i + 1])

\* ORDER BY key ASC
order_by_key_asc(keys) == CHOOSE o \in orders(keys) : is_sorted(o)

\* str::find(&str): the offset of the first occurrence of d in s, -1 for None
find_str(s, d) ==
    LET at == {i \in 0..(Len(s) - Len(d)) : SubSeq(s, i + 1, i + Len(d)) = d}
    IN IF at = {} THEN -1 ELSE CHOOSE i \in at : \A j \in at : i <= j

\* main.rs list_objects_v2: the loop over the rows
main_group_rows(prefix, delimiter, rows) ==
    LET grouped(key) ==
            /\ delimiter # None
            /\ starts_with(key, prefix)
            /\ Len(key) > Len(prefix)
            /\ find_str(SubSeq(key, Len(prefix) + 1, Len(key)), delimiter) >= 0
        C[i \in 0..Len(rows)] ==
            IF i = 0 THEN <<>>
            ELSE IF grouped(rows[i].key) THEN C[i - 1]
            ELSE Append(C[i - 1],
                        [key |-> rows[i].key, size |-> rows[i].size,
                         last_modified |-> rows[i].last_modified, etag |-> None,
                         storage_class |-> "STANDARD"])
        common_prefixes ==
            {SubSeq(rows[i].key, 1,
                    Len(prefix)
                    + find_str(SubSeq(rows[i].key, Len(prefix) + 1, Len(rows[i].key)), delimiter)
                    + Len(delimiter)) :
                i \in {j \in 1..Len(rows) : grouped(rows[j].key)}}
    IN [contents |-> C[Len(rows)], common_prefixes |-> [p \in common_prefixes |-> 1]]

\* main.rs list_objects_v2: the document it writes
main_listing_xml(r) ==
    [elements |->
        << element("IsTruncated", bool_to_string(FALSE)),
           element("Name", display(r.name)), element("Prefix", display(r.prefix)) >>
        \o optional("Delimiter", r.delimiter)
        \o << element("KeyCount", to_string(Len(r.contents))) >>
        \o optional("EncodingType", r.encoding_type)
        \o flatten([i \in 1..Len(r.contents) |->
               << element("Key", display(r.contents[i].key)),
                  element("Size", to_string(r.contents[i].size)),
                  element("LastModified", to_string(r.contents[i].last_modified)),
                  element("StorageClass", StorageClassText) >>]),
     common_prefixes |-> r.common_prefixes]

\* main.rs list_objects_v2.  dropped: the rows whose read fails
main_list_objects_v2(db, allowed, bucket, params, fault, dropped) ==
    LET v == validate_bucket(bucket, allowed) IN
    IF ~v.ok THEN v.resp
    ELSE LET prefix == unwrap_or_default(params.prefix)
             delimiter == params.delimiter
             table_name == main_sanitize_bucket_name(bucket)
         IN IF fault = "pool" THEN xml_error_response(500, "InternalError", 1, 0)
            ELSE IF table_name = None THEN response(400, "", "text", <<>>, -1, None, -1, 1, 0)
            ELSE IF fault = "prepare" \/ table_name \notin DOMAIN db
            THEN panic_response(1, 1)
            ELSE IF fault = "execute" THEN xml_error_response(500, "InternalError", 1, 1)
            ELSE LET stored == db[table_name].rows
                     hit == {k \in DOMAIN stored : like(k, prefix \o <<"%">>)}
                     keys == select_seq(order_by_key_asc(hit), hit \ dropped)
                     rows == [i \in 1..Len(keys) |->
                                [key |-> keys[i], size |-> Len(stored[keys[i]].data),
                                 last_modified |-> stored[keys[i]].last_modified]]
                     g == main_group_rows(prefix, delimiter, rows)
                     result == [name |-> bucket, prefix |-> prefix,
                                delimiter |-> delimiter, max_keys |-> -1,
                                is_truncated |-> FALSE,
                                encoding_type |-> params.encoding_type,
                                continuation_token |-> None,
                                next_continuation_token |-> None, start_after |-> None,
                                contents |-> g.contents,
                                common_prefixes |-> g.common_prefixes]
                 IN listing_response(result, main_listing_xml(result))

\* main.rs bucket_dispatch: which handler serves GET /{bucket}
bucket_dispatch(params) ==
    IF params.list_type = <<"2">> THEN "main_list_objects_v2"
    ELSE IF params.versioning # None THEN "main_get_bucket_versioning"
    ELSE "not_found"

\* HttpResponse::NotFound().finish()
not_found_response == response(404, "", "empty", <<>>, -1, None, -1, 0, 0)

----------------------------------------------------------------------------
(* The connection pool and the tasks that share it: utils/db.rs *)

\* Pool::builder().max_size(max_size)
PoolMaxSize == 2

\* the requests handled at the same time, each by a task of its own
Requests == {"r1", "r2"}
\* the task that schedule_optimization spawns
Maintenance == "maintenance"
Tasks == Requests \cup {Maintenance}

\* a task: where it stands in its code (pc) and its local variables
task(pc, op, bucket, body, md5_hash, status, result) ==
    [pc |-> pc, op |-> op, bucket |-> bucket, body |-> body,
     md5_hash |-> md5_hash, status |-> status, result |-> result]

idle_task == task("idle", "none", <<>>, <<>>, None, 0, "none")
sleeping_task == task("sleep", "optimize_database", <<>>, <<>>, None, 0, "none")

AllIdle == [t \in Tasks |-> IF t = Maintenance THEN sleeping_task ELSE idle_task]
NoConnections == [t \in Tasks |-> 0]

RECURSIVE connections_of(_, _)
connections_of(h, ts) ==
    IF ts = {} THEN 0
    ELSE LET t == CHOOSE x \in ts : TRUE IN h[t] + connections_of(h, ts \ {t})

\* the connections of the pool that are checked out
checked_out(h) == connections_of(h, DOMAIN h)

\* Pool::get() finds a connection: there is an idle one, or the pool may
\* still open one
available(h) == checked_out(h) < PoolMaxSize

\* Pool::get() returning Ok(conn) to the task
pool_get(h, t) == [h EXCEPT ![t] = @ + 1]

\* Drop of a PooledConnection: the connection goes back to the pool
drop(h, t) == [h EXCEPT ![t] = @ - 1]

\* a handler that forgets its connection when the key is absent
handler_return_leak(h, t, status) == IF status = 404 THEN h ELSE drop(h, t)

\* the return of a handler: conn goes out of scope, whatever the response
handler_return(h, t, status) == drop(h, t)

\* optimize_database keeping its connection when a statement failed
optimize_database_exit_on_ok(h, result) ==
    IF result = "ok" THEN drop(h, Maintenance) ELSE h

\* the return of optimize_database, Ok(()) or Err through `?`: conn goes out
\* of scope
optimize_database_exit(h, result) == drop(h, Maintenance)

\* a loop that ends at the first failed run
loop_next_break(result) == IF result = "err" THEN "ended" ELSE "sleep"

\* schedule_optimization: after the log line the loop awaits the next tick
loop_next(result) == "sleep"

----------------------------------------------------------------------------
(* The state machine *)

\* the row of the key as it was when the request arrived (for the record
\* of the request only: no handler reads it)
NoRow == [present |-> FALSE, data |-> <<>>, last_modified |-> -1]
row_before(db, tbl, key) ==
    IF has_row(db, tbl, key)
    THEN [present |-> TRUE, data |-> db[tbl].rows[key].data,
          last_modified |-> db[tbl].rows[key].last_modified]
    ELSE NoRow

request(handler, bucket, key, body, query, fault, before, resp) ==
    [handler |-> handler, bucket |-> bucket, key |-> key, body |-> body,
     query |-> query, fault |-> fault, before |-> before, resp |-> resp]

NoRequest ==
    request("none", <<>>, <<>>, <<>>, NoQuery, "none", NoRow,
            response(0, "", "none", <<>>, -1, None, -1, 0, 0))

Init ==
    /\ server \in {"handlers", "main"}
    /\ phase = "startup"
    /\ config \in Configs
    /\ buckets = {}
    /\ tables = [t \in {} |-> 0]
    /\ now = 0
    /\ last = NoRequest
    /\ m_in = <<None, None>>
    /\ m_out = [impl |-> "none", ids |-> <<None, None>>]
    /\ held = NoConnections
    /\ procs = AllIdle

create_tables(db, idents) ==
    [t \in DOMAIN db \cup idents |-> IF t \in DOMAIN db THEN db[t] ELSE new_table]

RECURSIVE ensure_tables(_, _)
\* ensure_bucket_table for each bucket of a set, one after the other
ensure_tables(db, bs) ==
    IF bs = {} THEN db
    ELSE LET b == CHOOSE x \in bs : TRUE
         IN ensure_tables(ensure_bucket_table(db, b).db, bs \ {b})

\* the statements of the startup for the buckets it got to: those of
\* ensure_bucket_table and the index on the table it made
startup_statements(db, done) ==
    UNION {ensure_bucket_table(db, b).sql
           \cup {create_bucket_indexes(sanitize_bucket_name(b))} : b \in done}

\* what the startup leaves in "last": no request, the statements it ran
startup_record(stmts) ==
    request("startup", <<>>, <<>>, <<>>, NoQuery, "none", NoRow,
            with_statements(response(0, "", "none", <<>>, -1, None, -1, 1, Cardinality(stmts)),
                            stmts))

\* startup of the axum server: ensure_bucket_table for every configured
\* bucket; an Err ends the process, after the tables of the buckets before it
Startup ==
    /\ server = "handlers"
    /\ phase = "startup"
    /\ IF \A b \in config : ensure_bucket_table(tables, b).ok
       THEN /\ tables' = ensure_tables(tables, config)
            /\ last' = startup_record(startup_statements(tables, config))
            /\ buckets' = config
            /\ phase' = "serving"
       ELSE /\ \E done \in SUBSET {b \in config : ensure_bucket_table(tables, b).ok} :
                 /\ tables' = ensure_tables(tables, done)
                 /\ last' = startup_record(startup_statements(tables, done))
            /\ buckets' = buckets
            /\ phase' = "failed"
    /\ UNCHANGED <<server, config, now, m_in, m_out, held, procs>>

\* main.rs main: a table and a trigger per configured bucket, a panic on a
\* name the mapper rejects
MainStartup ==
    /\ server = "main"
    /\ phase = "startup"
    /\ IF \A b \in config : main_sanitize_bucket_name(b) # None
       THEN /\ tables' = create_tables(tables, {main_sanitize_bucket_name(b) : b \in config})
            /\ buckets' = config
            /\ phase' = "serving"
       ELSE /\ \E done \in SUBSET {b \in config : main_sanitize_bucket_name(b) # None} :
                 tables' = create_tables(tables, {main_sanitize_bucket_name(b) : b \in done})
            /\ buckets' = buckets
            /\ phase' = "failed"
    /\ UNCHANGED <<server, config, now, last, m_in, m_out, held, procs>>

\* the process ends and is started again on the same database file: the
\* tables and their rows are kept, the startup runs again
Restart ==
    /\ phase = "serving"
    /\ phase' = "startup"
    /\ buckets' = {}
    /\ last' = NoRequest
    /\ UNCHANGED <<server, config, tables, now, m_in, m_out, held, procs>>

\* time passes
Tick ==
    /\ phase = "serving"
    /\ now < MaxClock
    /\ now' = now + 1
    /\ UNCHANGED <<server, phase, config, buckets, tables, last, m_in, m_out, held, procs>>

Serving(srv) == server = srv /\ phase = "serving"

Frame == UNCHANGED <<server, phase, config, buckets, now, m_in, m_out, held, procs>>

UploadObject ==
    /\ Serving("handlers")
    /\ \E bucket \in RequestBuckets :
       \E key \in KeysOf(bucket), body \in PayloadsOf(bucket) :
       \E fault \in FaultsOf(bucket, key) :
          LET r == upload_object(tables, buckets, now, bucket, key, body, fault) IN
          /\ tables' = r.db
          /\ last' = request("upload_object", bucket, key, body, NoQuery, fault,
                             row_before(tables, sanitize_bucket_name(bucket), key), r.resp)
    /\ Frame

DownloadObject ==
    /\ Serving("handlers")
    /\ \E bucket \in RequestBuckets :
       \E key \in KeysOf(bucket) :
       \E fault \in FaultsOf(bucket, key) :
          last' = request("download_object", bucket, key, <<>>, NoQuery, fault,
                          row_before(tables, sanitize_bucket_name(bucket), key),
                          download_object(tables, buckets, bucket, key, fault))
    /\ UNCHANGED tables
    /\ Frame

DeleteObject ==
    /\ Serving("handlers")
    /\ \E bucket \in RequestBuckets :
       \E key \in KeysOf(bucket) :
       \E fault \in FaultsOf(bucket, key) :
          LET r == delete_object(tables, buckets, bucket, key, fault) IN
          /\ tables' = r.db
          /\ last' = request("delete_object", bucket, key, <<>>, NoQuery, fault,
                             row_before(tables, sanitize_bucket_name(bucket), key), r.resp)
    /\ Frame

HeadObject ==
    /\ Serving("handlers")
    /\ \E bucket \in RequestBuckets :
       \E key \in KeysOf(bucket) :
       \E fault \in FaultsOf(bucket, key) :
          last' = request("head_object", bucket, key, <<>>, NoQuery, fault,
                          row_before(tables, sanitize_bucket_name(bucket), key),
                          head_object(tables, buckets, bucket, key, fault))
    /\ UNCHANGED tables
    /\ Frame

\* the keys of the bucket's table, when there is one
table_keys(db, bucket) ==
    IF sanitize_bucket_name(bucket) \in DOMAIN db
    THEN DOMAIN db[sanitize_bucket_name(bucket)].rows ELSE {}

\* the row reads that may fail: none, unless the fault is in the rows
droppable(keys, fault) ==
    IF fault = "rows" THEN SUBSET keys \ {{}} ELSE {{}}

\* GET /{bucket}?...  through get_bucket_dispatch
GetBucket ==
    /\ Serving("handlers")
    /\ \E bucket \in RequestBuckets, params \in Queries :
       \E fault \in ListFaultsOf(bucket) :
       \E order \in IF fault \in {"none", "rows"}
                     THEN orders(table_keys(tables, bucket)) ELSE {<<>>} :
       \E dropped \in droppable(table_keys(tables, bucket), fault) :
          LET handler == get_bucket_dispatch(params)
              resp == IF handler = "get_bucket_versioning"
                      THEN get_bucket_versioning(buckets, bucket)
                      ELSE IF handler = "list_objects_v2"
                      THEN list_objects_v2(tables, buckets, bucket, params, fault, order, dropped)
                      ELSE list_objects(tables, buckets, bucket, params, fault, order, dropped)
          IN last' = request(handler, bucket, <<>>, <<>>, params, fault, NoRow, resp)
    /\ UNCHANGED tables
    /\ Frame

MainUploadObject ==
    /\ Serving("main")
    /\ \E bucket \in RequestBuckets :
       \E key \in KeysOf(bucket), body \in PayloadsOf(bucket) :
       \E fault \in FaultsOf(bucket, key) :
          LET r == main_upload_object(tables, buckets, now, bucket, key, body, fault) IN
          /\ tables' = r.db
          /\ last' = request("main_upload_object", bucket, key, body, NoQuery, fault,
                             row_before(tables, main_sanitize_bucket_name(bucket), key),
                             r.resp)
    /\ Frame

MainDeleteObject ==
    /\ Serving("main")
    /\ \E bucket \in RequestBuckets :
       \E key \in KeysOf(bucket) :
       \E fault \in FaultsOf(bucket, key) :
          LET r == main_delete_object(tables, buckets, bucket, key, fault) IN
          /\ tables' = r.db
          /\ last' = request("main_delete_object", bucket, key, <<>>, NoQuery, fault,
                             row_before(tables, main_sanitize_bucket_name(bucket), key),
                             r.resp)
    /\ Frame

Next ==
    \/ Startup
    \/ MainStartup
    \/ Restart
    \/ Tick
    \/ UploadObject
    \/ DownloadObject
    \/ DeleteObject
    \/ HeadObject
    \/ GetBucket
    \/ MainUploadObject
    \/ MainDeleteObject

Spec == Init /\ [][Next]_vars

----------------------------------------------------------------------------
(* The identifier mapper on its own: SpecMapper *)

NameChars == {"a", "-", "_", "!"}
Names == UNION {[1..n -> NameChars] : n \in 0..MaxNameLen}

InitMapper ==
    /\ m_in \in Names \X Names
    /\ m_out = [impl |-> "none", ids |-> <<None, None>>]
    /\ server = "handlers"
    /\ phase = "failed"
    /\ config = {}
    /\ buckets = {}
    /\ tables = <<>>
    /\ now = 0
    /\ last = NoRequest
    /\ held = NoConnections
    /\ procs = AllIdle

ApplySanitize ==
    /\ m_out.impl = "none"
    /\ m_out' = [impl |-> "utils",
                 ids |-> <<sanitize_bucket_name(m_in[1]), sanitize_bucket_name(m_in[2])>>]
    /\ UNCHANGED <<server, phase, config, buckets, tables, now, last, m_in, held, procs>>

ApplyMainSanitize ==
    /\ m_out.impl = "none"
    /\ m_out' = [impl |-> "main",
                 ids |-> <<main_sanitize_bucket_name(m_in[1]),
                           main_sanitize_bucket_name(m_in[2])>>]
    /\ UNCHANGED <<server, phase, config, buckets, tables, now, last, m_in, held, procs>>

NextMapper == ApplySanitize \/ ApplyMainSanitize

SpecMapper == InitMapper /\ [][NextMapper]_vars

\* C1: sanitize_bucket_name is injective on the names it accepts: two
\* distinct accepted bucket names never get the same table identifier.
C1_Injective ==
    (/\ m_out.impl = "utils"
     /\ m_in[1] # m_in[2]
     /\ m_out.ids[1] # None
     /\ m_out.ids[2] # None)
    => m_out.ids[1] # m_out.ids[2]

\* the mapper of main.rs, which keeps dashes, is injective
MainMapperInjective ==
    (/\ m_out.impl = "main"
     /\ m_in[1] # m_in[2]
     /\ m_out.ids[1] # None
     /\ m_out.ids[2] # None)
    => m_out.ids[1] # m_out.ids[2]


----------------------------------------------------------------------------
(* The contracts of the object operations *)

ObjectHandlers == {"upload_object", "download_object", "delete_object", "head_object"}
ListHandlers == {"list_objects", "list_objects_v2"}
AxumHandlers == ObjectHandlers \cup ListHandlers \cup {"get_bucket_versioning"}

\* the step is the handling of one request (a Tick moves the clock instead)
Handled == last'.handler # "none" /\ now' = now

\* what a client of the bucket can read: get and head of every key, and the
\* v1 listing of the whole bucket in every order the engine may return
view(db, bucket) ==
    [gets |-> [k \in Keys |-> download_object(db, buckets, bucket, k, "none")],
     heads |-> [k \in Keys |-> head_object(db, buckets, bucket, k, "none")],
     lists |-> {list_objects(db, buckets, bucket, NoQuery, "none", o, {}) :
                   o \in orders(table_keys(db, bucket))}]

\* C2: bucket isolation: a put or a delete on an allow-listed bucket A never
\* changes what get, head or listing of another allow-listed bucket B return.
C2_BucketIsolation ==
    [][(/\ Handled
        /\ last'.handler \in {"upload_object", "delete_object"}
        /\ last'.bucket \in buckets)
       => \A b \in buckets \ {last'.bucket} : view(tables', b) = view(tables, b)]_vars

\* C3: an object or listing request whose bucket name has a character outside
\* [A-Za-z0-9_-], or is empty, is answered 400 InvalidBucketName before the
\* pool is asked for a connection and before any statement.
C3_InvalidBucketName ==
    (/\ last.handler \in ObjectHandlers \cup ListHandlers
     /\ ~name_is_valid(last.bucket))
    => /\ last.resp.status = 400
       /\ last.resp.code = "InvalidBucketName"
       /\ last.resp.pool_gets = 0
       /\ last.resp.stmts = 0

\* C4: every operation on a bucket that is not in the allow-list is answered
\* 403 AccessDenied, asks the pool for no connection, runs no statement and
\* leaves the stored objects as they were.
C4_UnauthorizedBucket ==
    [][(/\ Handled
        /\ last'.handler \in AxumHandlers
        /\ last'.bucket \notin buckets)
       => /\ last'.resp.status = 403
          /\ last'.resp.code = "AccessDenied"
          /\ last'.resp.pool_gets = 0
          /\ last'.resp.stmts = 0
          /\ tables' = tables]_vars

\* a put on a- was denied while the table that a- maps to holds an object
C4_Witness ==
    /\ last.handler = "upload_object"
    /\ last.bucket \notin buckets
    /\ last.resp.status = 403
    /\ has_row(tables, sanitize_bucket_name(last.bucket), last.key)

\* C5: round trip: right after a successful put of (bucket, key, payload) a
\* get returns exactly the payload, and head and the listing report the
\* quoted hash of the payload as the ETag of the key.
C5_RoundTrip ==
    (last.handler = "upload_object" /\ last.resp.status = 200)
    => LET g == download_object(tables, buckets, last.bucket, last.key, "none")
           h == head_object(tables, buckets, last.bucket, last.key, "none")
       IN /\ g.status = 200
          /\ g.payload = last.body
          /\ g.content_length = Len(last.body)
          /\ h.status = 200
          /\ h.etag = quoted(md5_hex(last.body))
          /\ \A o \in orders(table_keys(tables, last.bucket)) :
                LET l == list_objects(tables, buckets, last.bucket, NoQuery,
                                      "none", o, {}).listing.contents
                IN /\ \E i \in 1..Len(l) : l[i].key = last.key
                   /\ \A i \in 1..Len(l) :
                         l[i].key = last.key => l[i].etag = quoted(md5_hex(last.body))

\* a successful put replaced another payload
C5_Witness ==
    /\ last.handler = "upload_object"
    /\ last.resp.status = 200
    /\ last.before.present
    /\ last.before.data # last.body

\* C6: overwrite: a put on a key that exists replaces the payload, the hash
\* and the timestamp of that one row; the table has as many rows as before,
\* the old payload is not readable any more, and last-modified is the time
\* of the overwrite, not earlier than before.
C6_Overwrite ==
    [][(/\ Handled
        /\ last'.handler = "upload_object"
        /\ last'.resp.status = 200
        /\ has_row(tables, sanitize_bucket_name(last'.bucket), last'.key))
       => LET t == sanitize_bucket_name(last'.bucket)
              old == tables[t].rows[last'.key]
              new == tables'[t].rows[last'.key]
          IN /\ DOMAIN tables'[t].rows = DOMAIN tables[t].rows
             /\ new.data = last'.body
             /\ new.md5 = md5_hex(last'.body)
             /\ new.last_modified = now
             /\ new.last_modified >= old.last_modified
             /\ download_object(tables', buckets, last'.bucket, last'.key, "none").payload
                   = last'.body]_vars

\* a put replaced a different payload written at an earlier time
C6_Witness ==
    /\ last.handler = "upload_object"
    /\ last.resp.status = 200
    /\ last.before.present
    /\ last.before.data # last.body
    /\ last.before.last_modified < now
    /\ tables[sanitize_bucket_name(last.bucket)].rows[last.key].last_modified = now

\* the step is a put of the bucket, key and payload of the successful put
\* handled just before it
SecondPut ==
    /\ Handled
    /\ last.handler = "upload_object"
    /\ last.resp.status = 200
    /\ last'.handler = "upload_object"
    /\ last'.fault = "none"
    /\ last'.bucket = last.bucket
    /\ last'.key = last.key
    /\ last'.body = last.body

\* C7 as claimed: the second of two identical puts succeeds and leaves the
\* stored state equal to the state after the first.
C7_IdempotentPut ==
    [][SecondPut => last'.resp.status = 200 /\ tables' = tables]_vars

\* C7 as amended: the second of two identical puts succeeds and leaves the
\* stored state equal to the state after the first, but for the last-modified
\* timestamp of that row, which becomes the time of the second put.
C7_IdempotentPutButTimestamp ==
    [][SecondPut
       => /\ last'.resp.status = 200
          /\ tables' = [tables EXCEPT
                           ![sanitize_bucket_name(last'.bucket)].rows[last'.key].last_modified
                               = now]]_vars

\* a put found its own payload in the row, written at an earlier time
C7_Witness ==
    /\ last.handler = "upload_object"
    /\ last.resp.status = 200
    /\ last.before.present
    /\ last.before.data = last.body
    /\ last.before.last_modified < now
    /\ tables[sanitize_bucket_name(last.bucket)].rows[last.key].last_modified = now

\* C8: idempotent delete: a delete of a key of an allow-listed bucket is
\* answered 204 whether the key was stored or not, and leaves the key absent.
C8_IdempotentDelete ==
    (/\ last.handler \in {"delete_object", "main_delete_object"}
     /\ last.bucket \in buckets
     /\ last.fault = "none")
    => /\ last.resp.status = 204
       /\ ~has_row(tables, sanitize_bucket_name(last.bucket), last.key)
       /\ ~has_row(tables, main_sanitize_bucket_name(last.bucket), last.key)

\* the delete handler of handlers/object.rs alone does answer 204
DeleteObjectIdempotent ==
    (/\ last.handler = "delete_object"
     /\ last.bucket \in buckets
     /\ last.fault = "none")
    => /\ last.resp.status = 204
       /\ ~has_row(tables, sanitize_bucket_name(last.bucket), last.key)

\* C9: head and get agree: on the same stored state both answer 200 or both
\* 404; head's Content-Length is the length of the payload get returns, its
\* ETag the quoted hash of that payload, and head carries no body.
C9_HeadGetAgreement ==
    (server = "handlers" /\ phase = "serving")
    => \A b \in buckets : \A k \in Keys :
          LET h == head_object(tables, buckets, b, k, "none")
              g == download_object(tables, buckets, b, k, "none")
          IN /\ h.status \in {200, 404}
             /\ h.status = g.status
             /\ h.status = 200
                   => /\ h.content_length = Len(g.payload)
                      /\ h.etag = quoted(md5_hex(g.payload))
                      /\ h.body_kind = "empty"
                      /\ h.payload = <<>>
                      /\ g.body_kind = "bytes"

\* a head found an object whose payload had been replaced
C9_Witness ==
    /\ last.handler = "head_object"
    /\ last.resp.status = 200
    /\ last.resp.content_length = 1
    /\ last.resp.etag = quoted(md5_hex(<<7>>))
    /\ now > last.resp.last_modified

\* C10: get and head of a key that is not stored answer 404 NoSuchKey, a
\* failure of the storage engine answers 500 InternalError, and neither is
\* reported as the other.
C10_AbsentVersusFailure ==
    (/\ last.handler \in {"download_object", "head_object"}
     /\ last.bucket \in buckets)
    => LET failed == last.fault # "none"
           stored == has_row(tables, sanitize_bucket_name(last.bucket), last.key)
       IN /\ failed => last.resp.status = 500 /\ last.resp.code = "InternalError"
          /\ (~failed /\ ~stored) => last.resp.status = 404 /\ last.resp.code = "NoSuchKey"
          /\ (~failed /\ stored) => last.resp.status = 200
          /\ last.resp.code = "NoSuchKey" => ~failed /\ ~stored
          /\ last.resp.code = "InternalError" => failed

\* a head of an absent key hit a failing statement and answered InternalError
C10_Witness ==
    /\ last.handler = "head_object"
    /\ last.bucket \in buckets
    /\ last.fault = "execute"
    /\ ~has_row(tables, sanitize_bucket_name(last.bucket), last.key)
    /\ last.resp.status = 500

\* C25: idempotent create-if-absent: ensure_bucket_table called for a bucket
\* whose table already exists succeeds and leaves every stored object of that
\* bucket (key, payload, hash, timestamp) and of every other bucket
\* unchanged; called for a name that sanitize_bucket_name rejects, it returns
\* an error and creates nothing.
C25_IdempotentCreate ==
    server = "handlers"
    => \A b \in RequestBuckets :
          LET e == ensure_bucket_table(tables, b) IN
          IF sanitize_bucket_name(b) = None
          THEN ~e.ok /\ e.db = tables
          ELSE /\ e.ok
               /\ \A t \in DOMAIN tables : e.db[t] = tables[t]
               /\ sanitize_bucket_name(b) \in DOMAIN tables => e.db = tables

\* the startup ran ensure_bucket_table on a database that already held the
\* table of bucket a- with two objects, and the objects are still there
C25_Witness ==
    /\ server = "handlers"
    /\ last.handler = "startup"
    /\ phase = "serving"
    /\ <<"a","-">> \in config
    /\ has_row(tables, <<"b","u","c","k","e","t","_","a","_">>, <<"a">>)
    /\ has_row(tables, <<"b","u","c","k","e","t","_","a","_">>, <<"a","/","b">>)
    /\ tables[<<"b","u","c","k","e","t","_","a","_">>].rows[<<"a">>].data = <<7>>

\* the startup of both servers keeps every table and row it finds
StartupKeepsRows ==
    [][phase = "startup" => \A t \in DOMAIN tables :
                               t \in DOMAIN tables' /\ tables'[t] = tables[t]]_vars

\* the object a client addresses as (bucket, key): the row of that key in
\* the table of the bucket
object_of(db, bucket, key) == row_before(db, sanitize_bucket_name(bucket), key)

\* C27: frame of the object operations: a put or delete on (bucket b, key k)
\* leaves the payload, hash and timestamp of every other row (any other key
\* of b, any key of any other bucket) unchanged; get, head, listing, bucket
\* enumeration and versioning change no stored row and never change the
\* allow-list.
C27_Frame ==
    [][(/\ Handled
        /\ last'.handler \in AxumHandlers
        /\ last'.bucket \in buckets)
       => /\ buckets' = buckets
          /\ last'.handler \in {"upload_object", "delete_object"}
             => \A b \in buckets : \A k \in Keys :
                   <<b, k>> # <<last'.bucket, last'.key>>
                   => object_of(tables', b, k) = object_of(tables, b, k)
          /\ last'.handler \notin {"upload_object", "delete_object"}
             => tables' = tables]_vars

\* the frame in terms of tables: every row but the one of the key in the
\* table of the bucket is kept, the reads keep every row, no request changes
\* the allow-list
RowFrame ==
    [][(/\ Handled
        /\ last'.handler \in AxumHandlers)
       => /\ buckets' = buckets
          /\ DOMAIN tables' = DOMAIN tables
          /\ last'.handler \in {"upload_object", "delete_object"}
             => \A t \in DOMAIN tables : \A k \in Keys :
                   <<t, k>> # <<sanitize_bucket_name(last'.bucket), last'.key>>
                   => row_before(tables', t, k) = row_before(tables, t, k)
          /\ last'.handler \notin {"upload_object", "delete_object"}
             => tables' = tables]_vars

\* every row of the axum server carries the hex MD5 digest of its payload,
\* whatever requests were served one after the other
RowsHashed ==
    server = "handlers"
    => \A t \in DOMAIN tables : \A k \in DOMAIN tables[t].rows :
          tables[t].rows[k].md5 = md5_hex(tables[t].rows[k].data)

----------------------------------------------------------------------------
(* The listing on its own: SpecListing.  A bucket that holds a set of keys *)
(* is listed once, through the dispatch of GET /{bucket}.                  *)

\* at most this many keys are stored, but for the four keys of ExampleKeys
MaxStored == 3

ListBucketName == <<"a", "-">>

ExampleKeys ==
    { <<"a","/","b">>, <<"a","/","c">>, <<"a","/","x","/","y">>, <<"d">> }

ListKeys == ExampleKeys \cup { <<"A">> }

ListKeySets ==
    {S \in SUBSET ListKeys : Cardinality(S) <= MaxStored} \cup {ExampleKeys}

\* the prefix parameter: absent, plain, with the wildcards of LIKE, with a
\* character that XML reserves
ListPrefixes == { None, <<"a">>, <<"a","/">>, <<"a","_">>, <<"%">>, <<"<">> }

\* the max-keys parameter: zero, negative, below the number of matches
ListMaxKeys == { <<"0">>, <<"-", "1">>, <<"1">> }

ListQueries ==
    { Query(p, d, None, None, None, None, t, None) :
        p \in ListPrefixes, d \in {None, <<"/">>}, t \in {None, <<"2">>, <<"3">>} }
    \cup { Query(None, None, None, None, None, None, None, <<>>) }
    \cup { Query(p, <<"/">>, m, <<"u","r","l">>, <<"d">>, <<"t">>, t, None) :
             p \in {None, <<"a">>}, m \in ListMaxKeys, t \in {None, <<"2">>} }

\* the table of the bucket in the server that runs
list_table == 
    IF server = "main" THEN main_sanitize_bucket_name(ListBucketName)
    ELSE sanitize_bucket_name(ListBucketName)

stored_keys == DOMAIN tables[list_table].rows

InitListing ==
    /\ server \in {"handlers", "main"}
    /\ phase = "serving"
    /\ config = {ListBucketName}
    /\ buckets = {ListBucketName}
    /\ \E S \in ListKeySets :
          tables = [t \in {list_table} |->
                      [rows |-> [k \in S |->
                                   [data |-> <<7>>, last_modified |-> 0,
                                    md5 |-> IF server = "main" THEN None
                                            ELSE md5_hex(<<7>>)]],
                       trigger |-> TRUE]]
    /\ now = 0
    /\ last = NoRequest
    /\ m_in = <<None, None>>
    /\ m_out = [impl |-> "none", ids |-> <<None, None>>]
    /\ held = NoConnections
    /\ procs = AllIdle

\* GET /{bucket}?... on the axum server
ListBucket ==
    /\ server = "handlers"
    /\ last.handler = "none"
    /\ \E params \in ListQueries, fault \in Faults \cup {"rows"} :
       \E order \in IF fault \in {"none", "rows"} THEN orders(stored_keys) ELSE {<<>>} :
       \E dropped \in droppable(stored_keys, fault) :
          LET handler == get_bucket_dispatch(params)
              resp == IF handler = "get_bucket_versioning"
                      THEN get_bucket_versioning(buckets, ListBucketName)
                      ELSE IF handler = "list_objects_v2"
                      THEN list_objects_v2(tables, buckets, ListBucketName, params,
                                           fault, order, dropped)
                      ELSE list_objects(tables, buckets, ListBucketName, params,
                                        fault, order, dropped)
          IN last' = request(handler, ListBucketName, <<>>, <<>>, params, fault, NoRow, resp)
    /\ UNCHANGED <<server, phase, config, buckets, tables, now, m_in, m_out, held, procs>>

\* GET /{bucket}?... on the server of main.rs
MainBucketDispatch ==
    /\ server = "main"
    /\ last.handler = "none"
    /\ \E params \in ListQueries, fault \in Faults \cup {"rows"} :
       \E dropped \in droppable(stored_keys, fault) :
          LET handler == bucket_dispatch(params)
              resp == IF handler = "main_list_objects_v2"
                      THEN main_list_objects_v2(tables, buckets, ListBucketName, params,
                                                fault, dropped)
                      ELSE IF handler = "main_get_bucket_versioning"
                      THEN main_get_bucket_versioning(buckets, ListBucketName)
                      ELSE not_found_response
          IN last' = request(handler, ListBucketName, <<>>, <<>>, params, fault, NoRow, resp)
    /\ UNCHANGED <<server, phase, config, buckets, tables, now, m_in, m_out, held, procs>>

NextListing == ListBucket \/ MainBucketDispatch

SpecListing == InitListing /\ [][NextListing]_vars

----------------------------------------------------------------------------
(* The contracts of the listing *)

AllListHandlers == ListHandlers \cup {"main_list_objects_v2"}

listed_prefix == unwrap_or_default(last.query.prefix)

content_keys == {last.resp.listing.contents[i].key :
                    i \in 1..Len(last.resp.listing.contents)}

\* C11: prefix filtering: whatever keys are stored and whatever the prefix P
\* of the request (P with the wildcards % and _ of LIKE, or P that differs
\* from a stored key in letter case only), every key in the contents and
\* every common prefix of a v1 or v2 listing starts with P.
C11_PrefixFiltering ==
    (last.handler \in ListHandlers /\ last.resp.status = 200)
    => /\ \A k \in content_keys : starts_with(k, listed_prefix)
       /\ \A p \in DOMAIN last.resp.listing.common_prefixes : starts_with(p, listed_prefix)

\* a listing under prefix "a" of a bucket that holds "A", which the LIKE of
\* the query fetches, returned the keys under "a" only
C11_Witness ==
    /\ last.handler \in ListHandlers
    /\ last.resp.status = 200
    /\ last.fault = "none"
    /\ last.query.prefix = <<"a">>
    /\ <<"A">> \in stored_keys
    /\ content_keys = {<<"a","/","b">>}

\* C12: grouping: with a delimiter set, each fetched key (a stored key that
\* starts with the prefix) whose remainder after the prefix contains the
\* delimiter contributes prefix + remainder up to and including the first
\* delimiter to the common prefixes and is no content entry; every other
\* fetched key is a content entry.  Keys a/b, a/c, a/x/y, d with prefix ""
\* and delimiter "/" give the contents {d} and the common prefixes {a/}.
C12_Grouping ==
    (/\ last.handler \in AllListHandlers
     /\ last.resp.status = 200
     /\ last.fault = "none"
     /\ last.query.delimiter # None)
    => LET d == last.query.delimiter
           fetched == {k \in stored_keys : starts_with(k, listed_prefix)}
           remainder(k) == SubSeq(k, Len(listed_prefix) + 1, Len(k))
           grouped == {k \in fetched : find_str(remainder(k), d) >= 0}
           group(k) == listed_prefix
                       \o SubSeq(remainder(k), 1, find_str(remainder(k), d) + Len(d))
       IN /\ DOMAIN last.resp.listing.common_prefixes = {group(k) : k \in grouped}
          /\ \A k \in grouped : k \notin content_keys
          /\ \A k \in fetched \ grouped : k \in content_keys
          /\ (stored_keys = ExampleKeys /\ listed_prefix = <<>>)
                => /\ content_keys = {<<"d">>}
                   /\ DOMAIN last.resp.listing.common_prefixes = {<<"a","/">>}

\* the listing of the four keys with prefix "" and delimiter "/"
C12_Witness ==
    /\ last.handler \in AllListHandlers
    /\ last.resp.status = 200
    /\ last.fault = "none"
    /\ last.query.delimiter = <<"/">>
    /\ listed_prefix = <<>>
    /\ stored_keys = ExampleKeys
    /\ content_keys = {<<"d">>}

\* C13: no double counting: in a v1 or v2 listing no content key is covered
\* by (starts with, or equals) a reported common prefix, no key is a content
\* entry twice, and each distinct common prefix is reported exactly once
\* however many keys share it.
C13_NoDoubleCounting ==
    (last.handler \in ListHandlers /\ last.resp.status = 200)
    => LET l == last.resp.listing IN
       /\ \A k \in content_keys : \A p \in DOMAIN l.common_prefixes : ~starts_with(k, p)
       /\ \A i, j \in 1..Len(l.contents) : l.contents[i].key = l.contents[j].key => i = j
       /\ \A p \in DOMAIN l.common_prefixes : l.common_prefixes[p] = 1

\* two keys under a/ were grouped into one common prefix next to a content entry
C13_Witness ==
    /\ last.handler \in ListHandlers
    /\ last.resp.status = 200
    /\ last.fault = "none"
    /\ {<<"a","/","b">>, <<"a","/","c">>, <<"d">>} \subseteq stored_keys
    /\ DOMAIN last.resp.listing.common_prefixes = {<<"a","/">>}
    /\ <<"d">> \in content_keys

\* C14: contents ordering: in every listing the content entries are in
\* lexicographic order by key, in whatever order the engine returns the rows.
C14_ContentsOrdered ==
    (last.handler \in AllListHandlers /\ last.resp.status = 200)
    => is_sorted([i \in 1..Len(last.resp.listing.contents) |->
                     last.resp.listing.contents[i].key])

\* the listing of main.rs, whose query has ORDER BY key ASC, is ordered
MainContentsOrdered ==
    (last.handler = "main_list_objects_v2" /\ last.resp.status = 200)
    => is_sorted([i \in 1..Len(last.resp.listing.contents) |->
                     last.resp.listing.contents[i].key])

\* C15: unrecognized operation: a GET on /{bucket} with list-type=3 and no
\* versioning flag is answered 501 NotImplemented and runs no statement.
C15_NotImplemented ==
    (/\ last.handler # "none"
     /\ last.query.list_type = <<"3">>
     /\ last.query.versioning = None)
    => /\ last.resp.status = 501
       /\ last.resp.code = "NotImplemented"
       /\ last.resp.stmts = 0

\* the set of tags whose text is taken from the request or from stored keys
UserTags ==
    {"Name", "Prefix", "Delimiter", "EncodingType", "ContinuationToken",
     "NextContinuationToken", "StartAfter", "Key"}

Entities ==
    { <<"l","t",";">>, <<"g","t",";">>, <<"a","m","p",";">>,
      <<"q","u","o","t",";">>, <<"a","p","o","s",";">> }

\* no reserved character stands for itself in the text
well_escaped(text) ==
    \A i \in 1..Len(text) :
       /\ text[i] \notin {"<", ">", "\"", "'"}
       /\ text[i] = "&" => \E e \in Entities :
                              /\ i + Len(e) <= Len(text)
                              /\ SubSeq(text, i + 1, i + Len(e)) = e

\* C19: XML escaping: in every serialized listing each bucket name, key,
\* prefix and delimiter is escaped: no reserved character of XML stands
\* unescaped in the text of an element.
C19_XmlEscaped ==
    (last.handler \in AllListHandlers /\ last.resp.status = 200)
    => /\ \A i \in 1..Len(last.resp.xml.elements) :
             last.resp.xml.elements[i].tag \in UserTags
                => well_escaped(last.resp.xml.elements[i].text)
       /\ \A p \in DOMAIN last.resp.xml.common_prefixes : well_escaped(p)

\* C20: listing storage errors: a listing whose statement fails to prepare,
\* to run, or to read one of its rows answers 500 InternalError; it never
\* answers 200 with the failed rows missing.
C20_ListingStorageErrors ==
    (/\ last.handler \in AllListHandlers
     /\ last.bucket \in buckets
     /\ last.fault \in {"prepare", "execute", "rows"})
    => /\ last.resp.status = 500
       /\ last.resp.code = "InternalError"

\* the keys of the rows that query_bucket_objects fetches for the request
fetched_keys ==
    LET order == CHOOSE o \in orders(stored_keys) : TRUE
        q == query_bucket_objects(tables, last.bucket, listed_prefix, "none", order, {})
    IN {q.rows[i].key : i \in 1..Len(q.rows)}

\* C21: fetch step: for every request prefix P, the rows that
\* query_bucket_objects fetches are exactly the stored rows whose key starts
\* with P, case-sensitively and with % and _ in P taken literally; no row
\* with an unrelated key is fetched.
C21_FetchStep ==
    (last.handler \in ListHandlers /\ last.resp.status = 200 /\ last.fault = "none")
    => fetched_keys = {k \in stored_keys : starts_with(k, listed_prefix)}

\* what the LIKE of the query guarantees: every stored key that starts with
\* P is fetched (with further keys that match P as a pattern)
FetchStepCovers ==
    (last.handler \in ListHandlers /\ last.resp.status = 200 /\ last.fault = "none")
    => {k \in stored_keys : starts_with(k, listed_prefix)} \subseteq fetched_keys

\* the listing the other API version gives for the same request
other_version(order) ==
    IF last.handler = "list_objects"
    THEN list_objects_v2(tables, buckets, last.bucket, last.query, "none", order, {})
    ELSE list_objects(tables, buckets, last.bucket, last.query, "none", order, {})

content_set(listing) == {listing.contents[i] : i \in 1..Len(listing.contents)}

\* C22: v1/v2 equivalence: for the same stored state, bucket, prefix and
\* delimiter, the v1 listing and the v2 listing have the same set of content
\* entries and the same common prefixes; the results differ only in the
\* echoed request fields encoding-type, continuation-token and start-after.
C22_VersionsEquivalent ==
    (last.handler \in ListHandlers /\ last.resp.status = 200 /\ last.fault = "none")
    => \A order \in orders(stored_keys) :
          LET mine == last.resp.listing
              other == other_version(order).listing
          IN /\ other_version(order).status = 200
             /\ content_set(other) = content_set(mine)
             /\ other.common_prefixes = mine.common_prefixes
             /\ other.name = mine.name
             /\ other.prefix = mine.prefix
             /\ other.delimiter = mine.delimiter
             /\ other.max_keys = mine.max_keys
             /\ other.is_truncated = mine.is_truncated
             /\ other.next_continuation_token = mine.next_continuation_token

\* a v1 listing with a delimiter grouped a/b under a/ and listed d, for a
\* request that carries the fields only v2 echoes
C22_Witness ==
    /\ last.handler = "list_objects"
    /\ last.resp.status = 200
    /\ last.fault = "none"
    /\ last.query.prefix = None
    /\ last.query.delimiter = <<"/">>
    /\ last.query.start_after # None
    /\ content_keys = {<<"d">>}
    /\ DOMAIN last.resp.listing.common_prefixes = {<<"a","/">>}

\* the document of a listing has an element of that tag
has_element(xml, tag) == \E i \in 1..Len(xml.elements) : xml.elements[i].tag = tag

\* C23: truncation and tokens: every v1 listing result has the truncation
\* flag false and no encoding-type, continuation-token,
\* next-continuation-token or start-after, whatever query parameters were
\* sent; every v2 listing result passes the continuation-token of the request
\* through unchanged, has no next-continuation-token and the truncation flag
\* false.
C23_TruncationAndTokens ==
    LET r == last.resp.listing IN
    /\ (last.handler = "list_objects" /\ last.resp.status = 200)
       => /\ r.is_truncated = FALSE
          /\ r.encoding_type = None
          /\ r.continuation_token = None
          /\ r.next_continuation_token = None
          /\ r.start_after = None
          /\ \A tag \in {"EncodingType", "ContinuationToken",
                          "NextContinuationToken", "StartAfter"} :
                ~has_element(last.resp.xml, tag)
    /\ (last.handler = "list_objects_v2" /\ last.resp.status = 200)
       => /\ r.is_truncated = FALSE
          /\ r.continuation_token = last.query.continuation_token
          /\ r.next_continuation_token = None
          /\ ~has_element(last.resp.xml, "NextContinuationToken")
          /\ has_element(last.resp.xml, "ContinuationToken")
             <=> last.query.continuation_token # None

\* a v1 listing answered a request that sent encoding-type,
\* continuation-token and start-after
C23_Witness ==
    /\ last.handler = "list_objects"
    /\ last.resp.status = 200
    /\ last.query.encoding_type # None
    /\ last.query.continuation_token # None
    /\ last.query.start_after # None
    /\ Len(last.resp.listing.contents) > 0

\* C28: listing completeness regardless of max-keys: for every stored state,
\* prefix, delimiter and max-keys value (0, negative, below the number of
\* matches), every stored key that starts with the prefix is a content entry
\* or is covered by exactly one reported common prefix; max-keys is only
\* echoed and never caps the result.
C28_Complete ==
    (last.handler \in ListHandlers /\ last.resp.status = 200 /\ last.fault = "none")
    => /\ \A k \in stored_keys :
            starts_with(k, listed_prefix)
            => LET covering == {p \in DOMAIN last.resp.listing.common_prefixes :
                                  starts_with(k, p)}
               IN \/ k \in content_keys /\ covering = {}
                  \/ k \notin content_keys /\ Cardinality(covering) = 1
       /\ last.resp.listing.max_keys = max_keys_of(last.query.max_keys)

\* a listing with max-keys 0 returned two content entries and a common prefix
C28_Witness ==
    /\ last.handler \in ListHandlers
    /\ last.resp.status = 200
    /\ last.fault = "none"
    /\ last.query.max_keys = <<"0">>
    /\ last.resp.listing.max_keys = 0
    /\ Cardinality(content_keys) >= 2
    /\ DOMAIN last.resp.listing.common_prefixes # {}

----------------------------------------------------------------------------
(* The contracts of the storage access and of the identifier mapper *)

StorageHandlers ==
    ObjectHandlers \cup ListHandlers \cup {"main_upload_object", "main_delete_object"}

\* C16: connection acquisition failure: a put, get, delete, head or listing
\* that gets no connection from the pool answers 500 InternalError after one
\* call of pool.get(), and runs no statement.
C16_PoolFailure ==
    (/\ last.handler \in StorageHandlers
     /\ last.bucket \in buckets
     /\ last.fault = "pool")
    => /\ last.resp.status = 500
       /\ last.resp.code = "InternalError"
       /\ last.resp.pool_gets = 1
       /\ last.resp.stmts = 0

\* the handlers of the axum server do answer 500 and leave the tables alone
AxumPoolFailure ==
    [][(/\ Handled
        /\ last'.handler \in ObjectHandlers \cup ListHandlers
        /\ last'.bucket \in buckets
        /\ last'.fault = "pool")
       => /\ last'.resp.status = 500
          /\ last'.resp.code = "InternalError"
          /\ last'.resp.pool_gets = 1
          /\ last'.resp.stmts = 0
          /\ tables' = tables]_vars

\* the statement texts of the axum server, as given to format!
Templates ==
    { "INSERT INTO {table_name} (key, data, md5) VALUES (?1, ?2, ?3) ON CONFLICT(key) DO UPDATE SET data=excluded.data, md5=excluded.md5",
      "SELECT data FROM {table_name} WHERE key = ?1",
      "DELETE FROM {table_name} WHERE key = ?1",
      "SELECT LENGTH(data), last_modified, md5 FROM {table_name} WHERE key = ?1",
      "SELECT key, length(data), last_modified, md5 FROM {table_name} WHERE key LIKE ?1",
      "CREATE TABLE IF NOT EXISTS {table_name} (key TEXT NOT NULL PRIMARY KEY, data BLOB NOT NULL, last_modified INTEGER NOT NULL DEFAULT (strftime('%s', 'now')), md5 TEXT(32) NOT NULL)",
      "CREATE TRIGGER IF NOT EXISTS update_{table_name}_timestamp AFTER UPDATE ON {table_name} BEGIN UPDATE {table_name} SET last_modified = strftime('%s', 'now') WHERE key = NEW.key; END;",
      "CREATE INDEX IF NOT EXISTS idx_{}_key ON {} (key)" }

\* the identifiers the operation may use: the mapper's output for the bucket
\* of the request, or for a configured bucket at startup
identifiers_of(req) ==
    {sanitize_bucket_name(b) :
        b \in IF req.handler = "startup" THEN config ELSE {req.bucket}} \ {None}

expected_identifier(name) ==
    BucketPrefix \o [i \in 1..Len(name) |-> IF name[i] = "-" THEN "_" ELSE name[i]]

\* C18: identifier mapper shape: sanitize_bucket_name (utils/bucket.rs and
\* main.rs) returns an identifier exactly for the non-empty names made of
\* ASCII letters, digits, '_' and '-'; the identifier is "bucket_" followed
\* by the name with every '-' rewritten to '_', so it holds only letters,
\* digits and '_'.
C18_MapperShape ==
    (m_out.impl # "none")
    => \A i \in 1..2 :
          LET name == m_in[i]
              valid == /\ name # <<>>
                       /\ \A j \in 1..Len(name) :
                             is_ascii_alphanumeric(name[j]) \/ name[j] \in {"_", "-"}
          IN /\ (m_out.ids[i] # None) <=> valid
             /\ valid => /\ m_out.ids[i] = expected_identifier(name)
                         /\ \A j \in 1..Len(m_out.ids[i]) :
                               is_ascii_alphanumeric(m_out.ids[i][j]) \/ m_out.ids[i][j] = "_"

\* the mapper of utils/bucket.rs has the shape
UtilsMapperShape ==
    (m_out.impl = "utils")
    => \A i \in 1..2 :
          IF name_is_valid(m_in[i])
          THEN m_out.ids[i] = expected_identifier(m_in[i])
          ELSE m_out.ids[i] = None

----------------------------------------------------------------------------
(* Concurrent requests and the background maintenance on one pool:         *)
(* SpecPool.  Two requests on the same key of bucket a- are in flight at   *)
(* the same time as the maintenance task; a step is what a task does       *)
(* between two points where another task can run or the database can       *)
(* change.                                                                 *)

PoolBucket == <<"a","-">>
PoolKey == <<"a">>
PoolTable == sanitize_bucket_name(PoolBucket)
\* the buckets of the requests: the allow-listed one and one that is not
PoolRequestBuckets == {PoolBucket, <<"a","!">>}
PoolOps == {"upload_object", "download_object", "delete_object", "list_objects"}
\* the two requests carry different payloads
body_of(r) == IF r = "r1" THEN <<>> ELSE <<7>>

InitPool ==
    /\ server = "handlers"
    /\ phase = "serving"
    /\ config = {PoolBucket}
    /\ buckets = {PoolBucket}
    /\ tables = ensure_bucket_table(<<>>, PoolBucket).db
    /\ now = 0
    /\ last = NoRequest
    /\ m_in = <<None, None>>
    /\ m_out = [impl |-> "none", ids |-> <<None, None>>]
    /\ held = NoConnections
    /\ procs = AllIdle

PoolFrame == UNCHANGED <<server, phase, config, buckets, now, last, m_in, m_out>>

\* a request arrives: validate_bucket, 403 before the pool is asked
Arrive(r) ==
    /\ procs[r].pc = "idle"
    /\ \E op \in PoolOps, bucket \in PoolRequestBuckets :
          LET v == validate_bucket(bucket, buckets) IN
          procs' = [procs EXCEPT ![r] =
                      IF v.ok
                      THEN task("pool_get", op, bucket, body_of(r), None, 0, "none")
                      ELSE task("responded", op, bucket, body_of(r), None,
                                v.resp.status, "none")]
    /\ UNCHANGED <<tables, held>>
    /\ PoolFrame

\* pool.get(): Ok(conn) when the pool has a connection to give, Err after
\* connection_timeout otherwise or when no connection can be opened
PoolGet(r) ==
    /\ procs[r].pc = "pool_get"
    /\ \/ /\ available(held)
          /\ held' = pool_get(held, r)
          /\ procs' = [procs EXCEPT ![r].pc =
                         IF procs[r].op = "upload_object" THEN "hash" ELSE "execute"]
       \/ /\ held' = held
          /\ procs' = [procs EXCEPT ![r].pc = "responded", ![r].status = 500]
    /\ UNCHANGED tables
    /\ PoolFrame

\* upload_object: md5_hash = hex::encode(md5::compute(&body[..]).0)
Hash(r) ==
    /\ procs[r].pc = "hash"
    /\ procs' = [procs EXCEPT ![r].pc = "execute",
                              ![r].md5_hash = md5_hex(procs[r].body)]
    /\ UNCHANGED <<tables, held>>
    /\ PoolFrame

\* the one statement of the handler, run on its connection
Execute(r) ==
    /\ procs[r].pc = "execute"
    /\ \E fault \in {"none", "prepare", "execute"} :
          LET me == procs[r]
              answered(status) == [procs EXCEPT ![r].pc = "return", ![r].status = status]
          IN
          IF me.op = "upload_object"
          THEN IF statement_fails(tables, PoolTable, fault)
               THEN tables' = tables /\ procs' = answered(500)
               ELSE /\ tables' = upsert_row(tables, PoolTable, PoolKey, me.body,
                                            me.md5_hash, now)
                    /\ procs' = answered(200)
          ELSE IF me.op = "delete_object"
          THEN LET d == delete_object(tables, buckets, me.bucket, PoolKey, fault) IN
               tables' = d.db /\ procs' = answered(d.resp.status)
          ELSE IF me.op = "list_objects"
          THEN LET q == query_bucket_objects(tables, me.bucket, <<>>, fault, <<PoolKey>>, {}) IN
               /\ tables' = tables
               /\ procs' = answered(IF q.ok THEN 200 ELSE q.resp.status)
          ELSE /\ tables' = tables
               /\ procs' = answered(download_object(tables, buckets, me.bucket,
                                                    PoolKey, fault).status)
    /\ UNCHANGED held
    /\ PoolFrame

\* the handler returns its response: conn is dropped
Return(r) ==
    /\ procs[r].pc = "return"
    /\ held' = handler_return(held, r, procs[r].status)
    /\ procs' = [procs EXCEPT ![r].pc = "responded"]
    /\ UNCHANGED tables
    /\ PoolFrame

\* the response is sent, the task of the request ends
Done(r) ==
    /\ procs[r].pc = "responded"
    /\ procs' = [procs EXCEPT ![r] = idle_task]
    /\ UNCHANGED <<tables, held>>
    /\ PoolFrame

\* schedule_optimization: interval.tick().await completes
IntervalTick ==
    /\ procs[Maintenance].pc = "sleep"
    /\ procs' = [procs EXCEPT ![Maintenance].pc = "pool_get",
                              ![Maintenance].result = "none"]
    /\ UNCHANGED <<tables, held>>
    /\ PoolFrame

\* optimize_database: pool.get().map_err(..)?
OptimizeGet ==
    /\ procs[Maintenance].pc = "pool_get"
    /\ \/ /\ available(held)
          /\ held' = pool_get(held, Maintenance)
          /\ procs' = [procs EXCEPT ![Maintenance].pc = "vacuum"]
       \/ /\ held' = held
          /\ procs' = [procs EXCEPT ![Maintenance].pc = "log",
                                    ![Maintenance].result = "err"]
    /\ UNCHANGED tables
    /\ PoolFrame

\* optimize_database: conn.execute("VACUUM", [])?  The rows stay as they are
Vacuum ==
    /\ procs[Maintenance].pc = "vacuum"
    /\ \E ok \in BOOLEAN :
          procs' = IF ok THEN [procs EXCEPT ![Maintenance].pc = "analyze"]
                   ELSE [procs EXCEPT ![Maintenance].pc = "exit",
                                      ![Maintenance].result = "err"]
    /\ UNCHANGED <<tables, held>>
    /\ PoolFrame

\* optimize_database: conn.execute("ANALYZE", [])?; Ok(())
Analyze ==
    /\ procs[Maintenance].pc = "analyze"
    /\ \E ok \in BOOLEAN :
          procs' = [procs EXCEPT ![Maintenance].pc = "exit",
                                 ![Maintenance].result = IF ok THEN "ok" ELSE "err"]
    /\ UNCHANGED <<tables, held>>
    /\ PoolFrame

\* optimize_database returns: conn is dropped
OptimizeExit ==
    /\ procs[Maintenance].pc = "exit"
    /\ held' = optimize_database_exit(held, procs[Maintenance].result)
    /\ procs' = [procs EXCEPT ![Maintenance].pc = "log"]
    /\ UNCHANGED tables
    /\ PoolFrame

\* schedule_optimization: error!(..) or info!(..), then the loop goes on
Log ==
    /\ procs[Maintenance].pc = "log"
    /\ procs' = [procs EXCEPT ![Maintenance].pc = loop_next(procs[Maintenance].result)]
    /\ UNCHANGED <<tables, held>>
    /\ PoolFrame

RequestStep(r) ==
    \/ Arrive(r)
    \/ PoolGet(r)
    \/ Hash(r)
    \/ Execute(r)
    \/ Return(r)
    \/ Done(r)

MaintenanceStep ==
    \/ IntervalTick
    \/ OptimizeGet
    \/ Vacuum
    \/ Analyze
    \/ OptimizeExit
    \/ Log

NextPool ==
    \/ \E r \in Requests : RequestStep(r)
    \/ MaintenanceStep

SpecPool == InitPool /\ [][NextPool]_vars

\* the runtime runs every task that can take a step, and the timer of the
\* interval fires; whether a client sends a request is up to the client
PoolFairness ==
    /\ \A r \in Requests :
          /\ WF_vars(PoolGet(r))
          /\ WF_vars(Hash(r))
          /\ WF_vars(Execute(r))
          /\ WF_vars(Return(r))
    /\ WF_vars(IntervalTick)
    /\ WF_vars(OptimizeGet)
    /\ WF_vars(Vacuum)
    /\ WF_vars(Analyze)
    /\ WF_vars(OptimizeExit)
    /\ WF_vars(Log)

SpecPoolFair == SpecPool /\ PoolFairness

----------------------------------------------------------------------------
(* The contracts of the pool and of the maintenance task *)

maintenance == procs[Maintenance]

\* the maintenance task holds its connection from pool.get() to the return
\* of optimize_database only
MaintenanceHoldsInRun ==
    /\ held[Maintenance] <= 1
    /\ held[Maintenance] = 1 <=> maintenance.pc \in {"vacuum", "analyze", "exit"}

\* C24: background maintenance and the pool: each maintenance run acquires
\* one pooled connection of its own, holds it only while VACUUM and ANALYZE
\* execute and returns it to the pool on every exit path (success or
\* failure); between runs the task holds no connection, so a request that
\* needs a connection is never blocked forever by the maintenance task.
C24_MaintenanceAndPool ==
    /\ []MaintenanceHoldsInRun
    /\ (held[Maintenance] = 1) ~> (held[Maintenance] = 0 /\ maintenance.pc = "sleep")
    /\ \A r \in Requests :
          (procs[r].pc = "pool_get" /\ held[Maintenance] = 1)
          ~> (procs[r].pc # "pool_get")

\* a run whose VACUUM failed has returned, the task logs the error and holds
\* no connection, while the two requests hold the two connections of the pool
C24_Witness ==
    /\ maintenance.pc = "log"
    /\ maintenance.result = "err"
    /\ held[Maintenance] = 0
    /\ \A r \in Requests : held[r] = 1

\* C26: hash consistency: after any sequence and any interleaving of put and
\* delete operations, including concurrent puts to the same key, every
\* stored row's content hash is the hex MD5 digest of that same row's
\* payload; a reader never observes the payload of one put paired with the
\* hash of another.
C26_HashConsistent ==
    \A t \in DOMAIN tables : \A k \in DOMAIN tables[t].rows :
       tables[t].rows[k].md5 = md5_hex(tables[t].rows[k].data)

\* two puts to the same key overlapped (both hold a connection, both ran
\* their statement) and the row is the one of the put with the empty payload,
\* which overwrote the other
C26_Witness ==
    /\ \A r \in Requests : /\ procs[r].op = "upload_object"
                            /\ procs[r].pc = "return"
                            /\ procs[r].status = 200
                            /\ held[r] = 1
    /\ has_row(tables, PoolTable, PoolKey)
    /\ tables[PoolTable].rows[PoolKey].data = <<>>
    /\ tables[PoolTable].rows[PoolKey].md5 = md5_hex(<<>>)
    /\ md5_hex(<<>>) # md5_hex(<<7>>)

\* a handler holds at most one connection, and only between pool.get() and
\* its return; the pool never gives out more than max_size connections
PoolWithinBounds ==
    /\ checked_out(held) <= PoolMaxSize
    /\ \A r \in Requests :
          /\ held[r] <= 1
          /\ held[r] = 1 <=> procs[r].pc \in {"hash", "execute", "return"}

\* C29: pool usage by requests: every request handler acquires at most one
\* pooled connection, never while already holding one, and releases it on
\* every return path (success, NoSuchKey, InvalidBucketName, InternalError);
\* therefore the number of connections checked out never exceeds the pool's
\* maximum size and, under fair scheduling, every request eventually ends
\* with a response (no deadlock among concurrent requests and the
\* maintenance task).
C29_PoolUsage ==
    /\ []PoolWithinBounds
    /\ \A r \in Requests :
          (procs[r].pc # "idle") ~> (procs[r].pc = "responded" /\ held[r] = 0)

\* a download was answered 404 NoSuchKey and its connection is back, while
\* the other request and the maintenance task hold the whole pool
C29_Witness ==
    /\ procs["r1"].pc = "responded"
    /\ procs["r1"].op = "download_object"
    /\ procs["r1"].status = 404
    /\ held["r1"] = 0
    /\ held["r2"] = 1
    /\ held[Maintenance] = 1
    /\ checked_out(held) = PoolMaxSize

\* a step of the maintenance task leaves the requests and the rows alone
MaintenanceFrame ==
    (procs'[Maintenance] # procs[Maintenance] \/ held'[Maintenance] # held[Maintenance])
    => /\ \A r \in Requests : procs'[r] = procs[r] /\ held'[r] = held[r]
       /\ tables' = tables

\* C30: maintenance loop resilience: a failed maintenance run (connection
\* not acquired, VACUUM or ANALYZE error) is only logged; it does not end the
\* background loop, so a run is attempted again at every later interval
\* tick, and it never changes the outcome of any in-flight request.
C30_LoopResilient ==
    /\ [](maintenance.pc # "ended")
    /\ (maintenance.pc = "log" /\ maintenance.result = "err")
       ~> (maintenance.pc = "pool_get")
    /\ (maintenance.pc = "sleep") ~> (maintenance.pc = "pool_get")
    /\ [][MaintenanceFrame]_vars

\* the run after a failed one is under way (the task sleeps with the error
\* of its last run) while a request is in flight with a connection
C30_Witness ==
    /\ maintenance.pc = "sleep"
    /\ maintenance.result = "err"
    /\ \E r \in Requests : procs[r].pc = "execute" /\ held[r] = 1

====
